---- MODULE Spec2Model ----
(***************************************************************************)
(* Statement ingestion pipeline of GneissCash: the delimited-text parser   *)
(* (src/lib/parsers/csv.ts) and the PDF parser (src/lib/parsers/pdf.ts).   *)
(*                                                                         *)
(* Text is a TLC string; Len, SubSeq and \o apply to it, indices start at  *)
(* 1.  A JavaScript number is a record [nan, cents]: the value in          *)
(* hundredths, or NaN.  Digits after the second decimal place and an       *)
(* exponent part are not represented; no sample text carries either.       *)
(***************************************************************************)
EXTENDS Integers, Sequences, FiniteSets, TLC

(***************************************************************************)
(* Characters and strings (the JavaScript String methods the parsers use). *)
(***************************************************************************)
Digits == {"0", "1", "2", "3", "4", "5", "6", "7", "8", "9"}

UpperLetters == "ABCDEFGHIJKLMNOPQRSTUVWXYZ"

LowerLetters == "abcdefghijklmnopqrstuvwxyz"

LowerOf == [c \in {SubSeq(UpperLetters, i, i) : i \in 1..26} |->
              LET i == CHOOSE k \in 1..26 : SubSeq(UpperLetters, k, k) = c
              IN  SubSeq(LowerLetters, i, i)]

UpperOf == [c \in {SubSeq(LowerLetters, i, i) : i \in 1..26} |->
              LET i == CHOOSE k \in 1..26 : SubSeq(LowerLetters, k, k) = c
              IN  SubSeq(UpperLetters, i, i)]

IsDigit(c) == c \in Digits

IsUpper(c) == c \in DOMAIN LowerOf

IsLower(c) == c \in DOMAIN UpperOf

IsLetter(c) == IsUpper(c) \/ IsLower(c)

\* \s of a regular expression
IsSpace(c) == c = " "

\* \w of a regular expression
IsWordChar(c) == IsDigit(c) \/ IsLetter(c) \/ c = "_"

\* s[i-1] of JavaScript, "" outside the string
CharAt(s, i) == IF i >= 1 /\ i <= Len(s) THEN SubSeq(s, i, i) ELSE ""

\* s.slice(i-1): the text from index i on
From(s, i) == IF i > Len(s) THEN "" ELSE SubSeq(s, i, Len(s))

\* s.slice(0, i): the first i characters
Upto(s, i) == IF i <= 0 THEN "" ELSE SubSeq(s, 1, i)

DigitVal(c) == CHOOSE n \in 0..9 : SubSeq("0123456789", n + 1, n + 1) = c

\* the least of a set of indices, 0 when the set is empty
Least(S) == IF S = {} THEN 0 ELSE CHOOSE i \in S : \A j \in S : i <= j

\* the greatest of a set of indices, 0 when the set is empty
Greatest(S) == IF S = {} THEN 0 ELSE CHOOSE i \in S : \A j \in S : i >= j

RECURSIVE MapChars(_, _)
\* each character of s in the domain of f replaced by its image, by halves
MapChars(s, f) ==
    IF Len(s) = 0 THEN ""
    ELSE IF Len(s) = 1 THEN (IF s \in DOMAIN f THEN f[s] ELSE s)
    ELSE MapChars(SubSeq(s, 1, Len(s) \div 2), f)
         \o MapChars(SubSeq(s, Len(s) \div 2 + 1, Len(s)), f)

toLowerCase(s) == MapChars(s, LowerOf)

toUpperCase(s) == MapChars(s, UpperOf)

\* the index after the run of characters of set that starts at i (i itself
\* when none does)
RunEnd(s, set, i) ==
    IF i > Len(s) THEN i ELSE Least({j \in i..(Len(s) + 1) : CharAt(s, j) \notin set})

\* the first index >= i that holds no white space
SkipSpaces(s, i) == RunEnd(s, {" "}, i)

\* the last index <= i that holds no white space
SkipSpacesBack(s, i) == Greatest({j \in 1..i : ~IsSpace(CharAt(s, j))})

\* the text from index a to index b, "" when a > b
Between(s, a, b) == IF a > b THEN "" ELSE SubSeq(s, a, b)

trim(s) == Between(s, SkipSpaces(s, 1), SkipSpacesBack(s, Len(s)))

startsWith(s, p) == Len(p) <= Len(s) /\ SubSeq(s, 1, Len(p)) = p

endsWith(s, p) == Len(p) <= Len(s) /\ SubSeq(s, Len(s) - Len(p) + 1, Len(s)) = p

\* whether p occurs in s at index i
OccursAt(s, p, i) == i + Len(p) - 1 <= Len(s) /\ SubSeq(s, i, i + Len(p) - 1) = p

\* the index of the first occurrence of p in s at or after i, 0 when none
IndexFrom(s, p, i) == Least({j \in i..(Len(s) - Len(p) + 1) : OccursAt(s, p, j)})

\* s.indexOf(p) + 1: the index of the first occurrence, 0 when there is none
indexOf(s, p) == IndexFrom(s, p, 1)

includes(s, p) == indexOf(s, p) > 0

RECURSIVE RemoveChars(_, _, _)
\* s.replace(/[set]/g, '') from index i on
RemoveChars(s, set, i) ==
    LET Cut(j) ==
            IF j = 0 THEN From(s, i)
            ELSE Between(s, i, j - 1) \o RemoveChars(s, set, j + 1)
    IN  Cut(Least({j \in i..Len(s) : SubSeq(s, j, j) \in set}))

RECURSIVE CollapseFrom(_, _)
\* s.replace(/\s+/g, ' ') from index i on: a single blank stays as it is, a
\* run of two or more becomes one
CollapseFrom(s, i) ==
    LET Cut(j) ==
            IF j = 0 THEN From(s, i)
            ELSE Between(s, i, j - 1) \o " " \o CollapseFrom(s, SkipSpaces(s, j))
    IN  Cut(Least({j \in i..Len(s) : IsSpace(CharAt(s, j)) /\ IsSpace(CharAt(s, j + 1))}))

\* the index after the run of digits that starts at i (i itself when none does)
DigitRunEnd(s, i) == RunEnd(s, Digits, i)

RECURSIVE NatOf(_, _, _)
\* the number written by the digits s[i..j]
NatOf(s, i, j) ==
    IF j < i THEN 0 ELSE NatOf(s, i, j - 1) * 10 + DigitVal(SubSeq(s, j, j))

RECURSIVE NatToString(_)
NatToString(n) ==
    IF n < 10 THEN SubSeq("0123456789", n + 1, n + 1)
    ELSE NatToString(n \div 10) \o SubSeq("0123456789", (n % 10) + 1, (n % 10) + 1)

\* s.padStart(2, '0')
padStart2(s) == IF Len(s) < 2 THEN "0" \o s ELSE s

RECURSIVE JoinWith(_, _)
\* parts.join(sep)
JoinWith(parts, sep) ==
    IF Len(parts) = 0 THEN ""
    ELSE IF Len(parts) = 1 THEN parts[1]
    ELSE parts[1] \o sep \o JoinWith(Tail(parts), sep)

(***************************************************************************)
(* Numbers.                                                                *)
(***************************************************************************)
NaN == [nan |-> TRUE, cents |-> 0]

Num(c) == [nan |-> FALSE, cents |-> c]

isNaN(x) == x.nan

AbsInt(n) == IF n < 0 THEN -n ELSE n

\* Math.abs(x)
MathAbs(x) == IF x.nan THEN NaN ELSE Num(AbsInt(x.cents))

\* -x
Negate(x) == IF x.nan THEN NaN ELSE Num(-x.cents)

\* a - b
Minus(a, b) == IF a.nan \/ b.nan THEN NaN ELSE Num(a.cents - b.cents)

\* parseFloat(s): the longest numeric prefix after leading white space, NaN
\* when there is none
parseFloat(s) ==
    LET Value(t, i0, intEnd, nFrac) ==
            IF intEnd = i0 /\ nFrac = 0 THEN NaN
            ELSE LET whole == NatOf(t, i0, intEnd - 1)
                     frac  == IF nFrac = 0 THEN 0
                              ELSE IF nFrac = 1 THEN 10 * DigitVal(CharAt(t, intEnd + 1))
                              ELSE NatOf(t, intEnd + 1, intEnd + 2)
                 IN  Num(IF CharAt(t, 1) = "-"
                         THEN -(whole * 100 + frac) ELSE whole * 100 + frac)
        Fraction(t, i0, intEnd) ==
            Value(t, i0, intEnd,
                  IF CharAt(t, intEnd) = "." THEN DigitRunEnd(t, intEnd + 1) - intEnd - 1 ELSE 0)
        Whole(t, i0) == Fraction(t, i0, DigitRunEnd(t, i0))
        Sign(t) == Whole(t, IF CharAt(t, 1) \in {"-", "+"} THEN 2 ELSE 1)
    IN  Sign(From(s, SkipSpaces(s, 1)))

(***************************************************************************)
(* Regular expressions of the parsers.  A match is [start, len], len = 0   *)
(* when there is none; a null string result is "", which no match equals.  *)
(***************************************************************************)
SlashOnly == {"/"}

SlashOrDash == {"/", "-"}

\* \d{1,2} at i, followed by one of seps: the number of digits taken, 0 when
\* it does not match
DayOrMonthLen(s, i, seps) ==
    IF IsDigit(CharAt(s, i)) /\ IsDigit(CharAt(s, i + 1)) /\ CharAt(s, i + 2) \in seps
    THEN 2
    ELSE IF IsDigit(CharAt(s, i)) /\ CharAt(s, i + 1) \in seps THEN 1
    ELSE 0

NoDate == [len |-> 0, month |-> "", day |-> "", year |-> ""]

\* \d{1,2}<sep>\d{1,2}<sep>\d{minY,4} at index i: the three groups and the
\* length matched.  closed: the pattern ends with $ or \b, so the year must end
\* where its digits end.
DateAt(s, i, seps, minY, closed) ==
    LET Groups(n1, j, n2, k, n3) ==
            IF n3 < minY THEN NoDate
            ELSE [len   |-> k + n3 - i,
                  month |-> SubSeq(s, i, i + n1 - 1),
                  day   |-> SubSeq(s, j, j + n2 - 1),
                  year  |-> SubSeq(s, k, k + n3 - 1)]
        Year(n1, j, n2, k, run) ==
            Groups(n1, j, n2, k,
                   IF closed THEN (IF run <= 4 THEN run ELSE 0)
                   ELSE (IF run > 4 THEN 4 ELSE run))
        Day(n1, j, n2) ==
            IF n2 = 0 THEN NoDate
            ELSE Year(n1, j, n2, j + n2 + 1, DigitRunEnd(s, j + n2 + 1) - (j + n2 + 1))
        Month(n1) ==
            IF n1 = 0 THEN NoDate
            ELSE Day(n1, i + n1 + 1, DayOrMonthLen(s, i + n1 + 1, seps))
    IN  Month(DayOrMonthLen(s, i, seps))

\* a date match m at index i is a match of the pattern wrapped in \b ... \b
AtWordBounds(s, i, m) ==
    ~IsWordChar(CharAt(s, i - 1)) /\ ~IsWordChar(CharAt(s, i + m.len))

\* whether the date pattern matches at index i; wordBound: the pattern is
\* wrapped in \b ... \b
DateMatchesAt(s, i, seps, minY, wordBound) ==
    LET Check(m) == m.len > 0 /\ (wordBound => AtWordBounds(s, i, m))
    IN  Check(DateAt(s, i, seps, minY, wordBound))

\* the index of the leftmost match of the date pattern at or after i, 0 when
\* there is none
FirstDateFrom(s, i, seps, minY, wordBound) ==
    Least({j \in i..Len(s) : DateMatchesAt(s, j, seps, minY, wordBound)})

\* the leftmost match of the date pattern at or after index i
FindDate(s, i, seps, minY, wordBound) ==
    LET At(j) ==
            [start |-> j,
             len   |-> IF j = 0 THEN 0 ELSE DateAt(s, j, seps, minY, wordBound).len]
    IN  At(FirstDateFrom(s, i, seps, minY, wordBound))

\* the index after the run of [\d,] that starts at i
DigitCommaRunEnd(s, i) == RunEnd(s, Digits \cup {","}, i)

\* [\d,]+\.\d{2} at i: the length matched, 0 when it does not match
DecimalAt(s, i) ==
    LET Check(e) ==
            IF e > i /\ CharAt(s, e) = "." /\ IsDigit(CharAt(s, e + 1))
               /\ IsDigit(CharAt(s, e + 2))
            THEN e + 3 - i ELSE 0
    IN  Check(DigitCommaRunEnd(s, i))

\* (-?\$[\d,]+\.\d{2}|-?[\d,]+\.\d{2}|\([\d,]+\.\d{2}\)) at i: the length
\* matched by the first alternative that matches, 0 when none does
AmountAt(s, i) ==
    LET Pick(neg, a1, a2, a3) ==
            IF a1 > 0 THEN neg + 1 + a1
            ELSE IF a2 > 0 THEN neg + a2
            ELSE IF a3 > 0 /\ CharAt(s, i + 1 + a3) = ")" THEN a3 + 2
            ELSE 0
        Alternatives(neg) ==
            Pick(neg,
                  IF CharAt(s, i + neg) = "$" THEN DecimalAt(s, i + neg + 1) ELSE 0,
                  DecimalAt(s, i + neg),
                  IF CharAt(s, i) = "(" THEN DecimalAt(s, i + 1) ELSE 0)
    IN  Alternatives(IF CharAt(s, i) = "-" THEN 1 ELSE 0)

\* (-?\$?[\d,]+\.\d{2}) at i
GenericAmountAt(s, i) ==
    LET Check(lead, d) == IF d > 0 THEN lead + d ELSE 0
        Lead(lead) == Check(lead, DecimalAt(s, i + lead))
        Dollar(neg) == Lead(neg + (IF CharAt(s, i + neg) = "$" THEN 1 ELSE 0))
    IN  Dollar(IF CharAt(s, i) = "-" THEN 1 ELSE 0)

\* the leftmost match of the amount pattern at or after index i
FindAmount(s, i) ==
    LET At(j) == [start |-> j, len |-> IF j = 0 THEN 0 ELSE AmountAt(s, j)]
    IN  At(Least({j \in i..Len(s) : AmountAt(s, j) > 0}))

RECURSIVE LastGenericAmount(_, _, _)
\* the last of the matches of the generic amount pattern under /g from index
\* i on, last when there is none
LastGenericAmount(s, i, last) ==
    LET Match(j, n) == LastGenericAmount(s, j + n, SubSeq(s, j, j + n - 1))
        At(j) == IF j = 0 THEN last ELSE Match(j, GenericAmountAt(s, j))
    IN  At(Least({j \in i..Len(s) : GenericAmountAt(s, j) > 0}))

(***************************************************************************)
(* Amount/date normalizers of the delimited parser (csv.ts).               *)
(***************************************************************************)
\* /^(\d{4})-(\d{2})-(\d{2})$/
IsISODateText(cleaned) ==
    /\ Len(cleaned) = 10
    /\ DigitRunEnd(cleaned, 1) = 5
    /\ CharAt(cleaned, 5) = "-"
    /\ DigitRunEnd(cleaned, 6) = 8
    /\ CharAt(cleaned, 8) = "-"
    /\ DigitRunEnd(cleaned, 9) = 11

\* csv.ts parseUSDate: "" stands for null
csv_parseUSDate(dateStr) ==
    LET Format(cleaned, us) ==
            IF us.len > 0 /\ us.len = Len(cleaned)
            THEN us.year \o "-" \o padStart2(us.month) \o "-" \o padStart2(us.day)
            ELSE IF IsISODateText(cleaned) THEN cleaned
            ELSE ""
        Match(cleaned) == Format(cleaned, DateAt(cleaned, 1, SlashOnly, 4, TRUE))
    IN  Match(trim(dateStr))

\* csv.ts parseAmount
parseAmount(amountStr) ==
    LET Signed(isNegative, amount) == IF isNegative THEN Negate(MathAbs(amount)) ELSE amount
        Inner(cleaned, isNegative) ==
            Signed(isNegative,
                   parseFloat(RemoveChars(IF isNegative
                                          THEN (IF Len(cleaned) < 3 THEN ""
                                                ELSE SubSeq(cleaned, 2, Len(cleaned) - 1))
                                          ELSE cleaned,
                                          {"$", ","}, 1)))
        Outer(cleaned) == Inner(cleaned, startsWith(cleaned, "(") /\ endsWith(cleaned, ")"))
    IN  Outer(trim(amountStr))

(***************************************************************************)
(* Amount/date normalizers of the PDF parser (pdf.ts).                     *)
(***************************************************************************)
\* the two-digit year pivot of pdf.ts parseUSDate
ExpandYear(year) ==
    IF year < 100 THEN (IF year > 50 THEN 1900 + year ELSE 2000 + year) ELSE year

\* pdf.ts parseUSDate: "" stands for null
pdf_parseUSDate(dateStr) ==
    LET Format(cleaned, us) ==
            IF us.len > 0 /\ us.len = Len(cleaned)
            THEN NatToString(ExpandYear(NatOf(us.year, 1, Len(us.year))))
                 \o "-" \o padStart2(us.month) \o "-" \o padStart2(us.day)
            ELSE IF IsISODateText(cleaned) THEN cleaned
            ELSE ""
        Match(cleaned) == Format(cleaned, DateAt(cleaned, 1, SlashOrDash, 2, TRUE))
    IN  Match(trim(dateStr))

\* the sign rule of pdf.ts parseChimeAmount
ApplySign(amount, isNegative, isCredit) ==
    IF isNegative /\ ~isCredit THEN Negate(MathAbs(amount)) ELSE MathAbs(amount)

\* pdf.ts parseChimeAmount
parseChimeAmount(amountStr) ==
    LET Value(amount, isNegative, isCredit) ==
            IF isNaN(amount) THEN Num(0) ELSE ApplySign(amount, isNegative, isCredit)
        Sign(cleaned, trailingNegative, isCredit) ==
            Value(parseFloat(RemoveChars(cleaned, {"$", ",", "(", ")", "-", " "}, 1)),
                  startsWith(cleaned, "-") \/ startsWith(cleaned, "(") \/ trailingNegative,
                  isCredit)
        Trailing(cleaned, isCredit) ==
            Sign(IF endsWith(cleaned, "-") THEN trim(Upto(cleaned, Len(cleaned) - 1))
                 ELSE cleaned,
                 endsWith(cleaned, "-"), isCredit)
        Credit(cleaned) ==
            Trailing(IF endsWith(toUpperCase(cleaned), "CR")
                     THEN trim(Upto(cleaned, Len(cleaned) - 2)) ELSE cleaned,
                     endsWith(toUpperCase(cleaned), "CR"))
    IN  IF amountStr = "" THEN Num(0) ELSE Credit(trim(amountStr))

(***************************************************************************)
(* Text helpers of pdf.ts.                                                 *)
(***************************************************************************)
CHIME_TYPE_PATTERNS ==
    << "purchase", "purchases", "deposit", "deposits", "direct debit",
       "direct debits", "transfer", "transfers", "atm withdrawal",
       "atm withdrawals", "round up transfer", "round up transfers",
       "round up", "adjustment", "adjustments", "fee", "fees", "payment",
       "payments", "withdrawal", "withdrawals", "credit", "credits",
       "spotme", "spot me" >>

\* the patterns of exactly n characters, in the order of the list
PatternsOfLength(n) == SelectSeq(CHIME_TYPE_PATTERNS, LAMBDA p : Len(p) = n)

\* the length of the longest pattern
MaxPatternLength ==
    Greatest({Len(CHIME_TYPE_PATTERNS[k]) : k \in 1..Len(CHIME_TYPE_PATTERNS)})

RECURSIVE LongestFirst(_)
\* the patterns of at most n characters by decreasing length; patterns of one
\* length keep their order (Array.prototype.sort is stable)
LongestFirst(n) == IF n = 0 THEN <<>> ELSE PatternsOfLength(n) \o LongestFirst(n - 1)

\* the patterns in the order of the list, not sorted by length
CHIME_TYPE_PATTERNS_UNSORTED == CHIME_TYPE_PATTERNS

\* [...CHIME_TYPE_PATTERNS].sort((a, b) => b.length - a.length)
CHIME_TYPE_PATTERNS_SORTED == LongestFirst(MaxPatternLength)

RECURSIVE FirstPatternIn(_, _)
\* the first sorted pattern, from entry k on, that occurs in lower
FirstPatternIn(lower, k) ==
    IF k > Len(CHIME_TYPE_PATTERNS_SORTED) THEN [match |-> "", index |-> 0]
    ELSE IF indexOf(lower, CHIME_TYPE_PATTERNS_SORTED[k]) > 0
         THEN [match |-> CHIME_TYPE_PATTERNS_SORTED[k],
               index |-> indexOf(lower, CHIME_TYPE_PATTERNS_SORTED[k])]
    ELSE FirstPatternIn(lower, k + 1)

\* findChimeType: index = 0 stands for null
findChimeType(text) == FirstPatternIn(toLowerCase(text), 1)

collapseWhitespace(text) == trim(CollapseFrom(text, 1))

\* findFirstAmount: "" stands for null
findFirstAmount(text) ==
    LET Text(m) == IF m.len = 0 THEN "" ELSE SubSeq(text, m.start, m.start + m.len - 1)
    IN  Text(FindAmount(text, 1))

RECURSIVE StripAmounts(_, _)
\* every match of the amount pattern removed, from index i on
StripAmounts(s, i) ==
    LET At(j) ==
            IF j = 0 THEN From(s, i)
            ELSE Between(s, i, j - 1) \o StripAmounts(s, j + AmountAt(s, j))
    IN  At(Least({j \in i..Len(s) : AmountAt(s, j) > 0}))

removeAmounts(text) == trim(StripAmounts(text, 1))

RECURSIVE StripGenericAmounts(_, _)
\* s.replace(/(-?\$?[\d,]+\.\d{2})/g, '') from index i on
StripGenericAmounts(s, i) ==
    LET At(j) ==
            IF j = 0 THEN From(s, i)
            ELSE Between(s, i, j - 1) \o StripGenericAmounts(s, j + GenericAmountAt(s, j))
    IN  At(Least({j \in i..Len(s) : GenericAmountAt(s, j) > 0}))

RECURSIVE ReplaceDates(_, _, _, _)
\* every match of the date pattern (separators / and -) replaced by rep, from
\* index i on; wordBound: the pattern is wrapped in \b ... \b
ReplaceDates(s, i, rep, wordBound) ==
    LET At(j) ==
            IF j = 0 THEN From(s, i)
            ELSE Between(s, i, j - 1) \o rep
                 \o ReplaceDates(s, j + DateAt(s, j, SlashOrDash, 2, wordBound).len,
                                 rep, wordBound)
    IN  At(FirstDateFrom(s, i, SlashOrDash, 2, wordBound))

removeDates(text) == trim(ReplaceDates(text, 1, " ", TRUE))

\* s with the len characters from index i on removed; s when i = 0
CutAt(s, i, len) == IF i = 0 THEN s ELSE Upto(s, i - 1) \o From(s, i + len)

\* s.replace(p, ''): the first occurrence of the string p removed
RemoveFirst(s, p) == CutAt(s, indexOf(s, p), Len(p))

\* s.replace(new RegExp(p, 'i'), ''), p a lower-case keyword
RemoveFirstIgnoreCase(s, p) == CutAt(s, indexOf(toLowerCase(s), p), Len(p))

\* the first index >= i whose character is not in set
SkipChars(s, set, i) == RunEnd(s, set, i)

(***************************************************************************)
(* Merchant name cleaner of pdf.ts.                                        *)
(***************************************************************************)
\* a match of /\s{2,}|#|\*|APPLE PAY ENDING/i at index i
SeparatorAt(s, i) ==
    \/ (IsSpace(CharAt(s, i)) /\ IsSpace(CharAt(s, i + 1)))
    \/ CharAt(s, i) \in {"#", "*"}
    \/ OccursAt(toUpperCase(s), "APPLE PAY ENDING", i)

\* the index of the first separator, Len(s) + 1 when there is none
FirstSeparator(s) ==
    Least({j \in 1..(Len(s) + 1) : j = Len(s) + 1 \/ SeparatorAt(s, j)})

\* s.split(/\s{2,}|#|\*|APPLE PAY ENDING/i)[0]
FirstPart(s) == Upto(s, FirstSeparator(s) - 1)

NetworkPrefixes == <<"POS ", "DEBIT ", "ACH ", "CHECKCARD ">>

RECURSIVE PrefixLength(_, _)
\* the length of the first of the prefixes, from entry k on, that u starts
\* with; 0 when it starts with none
PrefixLength(u, k) ==
    IF k > Len(NetworkPrefixes) THEN 0
    ELSE IF startsWith(u, NetworkPrefixes[k]) THEN Len(NetworkPrefixes[k])
    ELSE PrefixLength(u, k + 1)

\* s.replace(/^(POS |DEBIT |ACH |CHECKCARD )/i, '')
StripNetworkPrefix(s) == From(s, PrefixLength(toUpperCase(s), 1) + 1)

\* the index after the run of [a-z] that starts at i
LowerRunEnd(s, i) == RunEnd(s, DOMAIN UpperOf, i)

\* whether /\b([A-Za-z])\s+([a-z]+)/ matches at index i
SplitLetterAt(s, i) ==
    /\ IsLetter(CharAt(s, i))
    /\ ~IsWordChar(CharAt(s, i - 1))
    /\ SkipSpaces(s, i + 1) > i + 1
    /\ LowerRunEnd(s, SkipSpaces(s, i + 1)) > SkipSpaces(s, i + 1)

RECURSIVE JoinSplitLetters(_, _)
\* s.replace(/\b([A-Za-z])\s+([a-z]+)/g, first + rest) from index i on
JoinSplitLetters(s, i) ==
    LET Join(j, k, e) ==
            Between(s, i, j) \o Between(s, k, e - 1) \o JoinSplitLetters(s, e)
        Rest(j, k) == Join(j, k, LowerRunEnd(s, k))
        At(j) == IF j = 0 THEN From(s, i) ELSE Rest(j, SkipSpaces(s, j + 1))
    IN  At(Least({j \in i..Len(s) : SplitLetterAt(s, j)}))

RECURSIVE SplitOnSpace(_, _)
\* s.split(' ') from index i on
SplitOnSpace(s, i) ==
    LET At(j) ==
            IF j = 0 THEN <<From(s, i)>>
            ELSE <<Between(s, i, j - 1)>> \o SplitOnSpace(s, j + 1)
    IN  At(Least({j \in i..Len(s) : SubSeq(s, j, j) = " "}))

HasDigit(s) == \E i \in 1..Len(s) : IsDigit(SubSeq(s, i, i))

HasLower(s) == \E i \in 1..Len(s) : IsLower(SubSeq(s, i, i))

HasUpper(s) == \E i \in 1..Len(s) : IsUpper(SubSeq(s, i, i))

\* /^[A-Z0-9]{2,}$/i.test(word)
IsAlnumWord(word) ==
    /\ Len(word) >= 2
    /\ \A i \in 1..Len(word) : IsLetter(SubSeq(word, i, i)) \/ IsDigit(SubSeq(word, i, i))

TitleWord(word) ==
    IF word = "" THEN word
    ELSE IF IsAlnumWord(word) /\ (Len(word) <= 3 \/ HasDigit(word)) THEN toUpperCase(word)
    ELSE toUpperCase(SubSeq(word, 1, 1)) \o toLowerCase(From(word, 2))

\* words.map(TitleWord).join(' ')
TitleWords(words) == JoinWith([k \in 1..Len(words) |-> TitleWord(words[k])], " ")

normalizeCapitalization(text) ==
    LET Normalize(trimmed) ==
            IF HasLower(trimmed) /\ HasUpper(trimmed) THEN trimmed
            ELSE TitleWords(SplitOnSpace(trimmed, 1))
    IN  IF text = "" THEN text ELSE Normalize(trim(text))

\* x || fallback, for strings
OrElse(x, fallback) == IF x = "" THEN fallback ELSE x

\* rawName.split(...)[0] || rawName
SplitHead(rawName) == OrElse(FirstPart(rawName), rawName)

\* s.replace(/^[\s:;,.-]+/, '')
StripLeadingPunctuation(s) == From(s, SkipChars(s, {" ", ":", ";", ",", ".", "-"}, 1))

cleanMerchantName(rawName) ==
    IF rawName = "" THEN "Unknown"
    ELSE OrElse(
           normalizeCapitalization(
             JoinSplitLetters(
               CollapseFrom(
                 StripLeadingPunctuation(StripNetworkPrefix(trim(SplitHead(rawName)))),
                 1),
               1)),
           "Unknown")

\* csv.ts extractMerchantName: parts[0]?.trim() || description
extractMerchantName(description) == OrElse(trim(FirstPart(description)), description)

(***************************************************************************)
(* PDF segmentation strategies of pdf.ts.  A transaction is                *)
(* [date, name, merchant_name, amount]; lists are indexed from 1.          *)
(***************************************************************************)
Txn(date, name, merchant, amount) ==
    [date |-> date, name |-> name, merchant_name |-> merchant, amount |-> amount]

\* /transaction date/i.test(line) && /description/i.test(line)
IsHeaderLine(line) ==
    includes(toLowerCase(line), "transaction date") /\ includes(toLowerCase(line), "description")

RECURSIVE FindHeader(_, _)
\* lines.findIndex(...) + 1
FindHeader(lines, k) ==
    IF k > Len(lines) THEN 0
    ELSE IF IsHeaderLine(lines[k]) THEN k
    ELSE FindHeader(lines, k + 1)

\* /^page\s+\d+/i, /^summary$/i, /^yearly summary/i, on the lower-cased line
IsBoilerplateLower(lower) ==
    \/ /\ startsWith(lower, "page")
       /\ SkipSpaces(lower, 5) > 5
       /\ IsDigit(CharAt(lower, SkipSpaces(lower, 5)))
    \/ lower = "summary"
    \/ startsWith(lower, "yearly summary")

IsBoilerplate(line) == IsBoilerplateLower(toLowerCase(line))

\* the date at the start of a line: /^(\d{1,2}[\/\-]\d{1,2}[\/\-]\d{2,4})/
LeadingDate(line) == Upto(line, DateAt(line, 1, SlashOrDash, 2, FALSE).len)

RECURSIVE FoldRow(_, _, _)
\* the lines folded into one row: up to the next line that starts with a date
FoldRow(lines, index, rowLines) ==
    LET Line(nextLine) ==
            IF nextLine = "" THEN FoldRow(lines, index + 1, rowLines)
            ELSE IF IsBoilerplate(nextLine) THEN FoldRow(lines, index + 1, rowLines)
            ELSE IF LeadingDate(nextLine) # "" THEN [index |-> index, rowLines |-> rowLines]
            ELSE FoldRow(lines, index + 1, Append(rowLines, nextLine))
    IN  IF index > Len(lines) THEN [index |-> index, rowLines |-> rowLines]
        ELSE Line(trim(lines[index]))

\* trimmed.replace(/^[:;,-]+\s*/, '')
StripLeadingMarks(trimmed, p) == From(trimmed, IF p > 1 THEN SkipSpaces(trimmed, p) ELSE 1)

RECURSIVE ExtraParts(_, _)
\* the supplemental lines of a row before the first one with a type or an amount
ExtraParts(rowLines, k) ==
    LET Line(trimmed) ==
            IF trimmed = "" THEN ExtraParts(rowLines, k + 1)
            ELSE IF findChimeType(trimmed).index > 0 THEN <<>>
            ELSE IF findFirstAmount(trimmed) # "" THEN <<>>
            ELSE <<StripLeadingMarks(trimmed, SkipChars(trimmed, {":", ";", ",", "-"}, 1))>>
                 \o ExtraParts(rowLines, k + 1)
    IN  IF k > Len(rowLines) THEN <<>> ELSE Line(trim(rowLines[k]))

\* amount === 0 && !amountCandidate.includes('0.00')
IsBogusZero(amount, amountCandidate) ==
    amount.cents = 0 /\ ~includes(amountCandidate, "0.00")

\* one folded row of the table strategy: the transactions (none or one) it gives
TableRow(rowLines, dateText, transactionDate) ==
    LET Emit(description, amount) ==
            <<Txn(transactionDate, description, cleanMerchantName(description), amount)>>
        LastResort(description) ==
            OrElse(OrElse(description,
                          collapseWhitespace(removeDates(collapseWhitespace(removeAmounts(
                              collapseWhitespace(RemoveFirst(rowLines[1], dateText))))))),
                   "Unknown Transaction")
        StripType(typeInfo, description) ==
            IF typeInfo.index > 0
            THEN collapseWhitespace(RemoveFirstIgnoreCase(description, typeInfo.match))
            ELSE description
        Describe(remainder, typeInfo) ==
            LastResort(StripType(typeInfo,
                collapseWhitespace(removeDates(collapseWhitespace(removeAmounts(
                    OrElse(OrElse(IF typeInfo.index > 0
                                  THEN collapseWhitespace(Upto(remainder, typeInfo.index - 1))
                                  ELSE "",
                                  collapseWhitespace(JoinWith(ExtraParts(rowLines, 2), " "))),
                           collapseWhitespace(remainder))))))))
        Decide(remainder, typeInfo, amountCandidate, amount) ==
            IF amountCandidate = "" THEN <<>>
            ELSE IF IsBogusZero(amount, amountCandidate) THEN <<>>
            ELSE Emit(Describe(remainder, typeInfo), amount)
        Amount(remainder, typeInfo, amountCandidate) ==
            Decide(remainder, typeInfo, amountCandidate, parseChimeAmount(amountCandidate))
        Type(remainder, typeInfo) ==
            Amount(remainder, typeInfo,
                   OrElse(findFirstAmount(IF typeInfo.index > 0
                                          THEN trim(From(remainder,
                                                         typeInfo.index + Len(typeInfo.match)))
                                          ELSE remainder),
                          findFirstAmount(remainder)))
        Remainder(remainder) ==
            IF remainder = "" THEN <<>> ELSE Type(remainder, findChimeType(remainder))
    IN  Remainder(collapseWhitespace(
            RemoveFirst(collapseWhitespace(JoinWith(rowLines, " ")), dateText)))

RECURSIVE TableLoop(_, _)
\* the while loop of parseChimeStatementTable from cursor index on
TableLoop(lines, index) ==
    LET Row(dateText, transactionDate, row) ==
            IF transactionDate = "" THEN TableLoop(lines, index + 1)
            ELSE TableRow(row.rowLines, dateText, transactionDate)
                 \o TableLoop(lines, row.index)
        Date(rawLine, dateText) ==
            IF dateText = "" THEN TableLoop(lines, index + 1)
            ELSE Row(dateText, pdf_parseUSDate(dateText),
                     FoldRow(lines, index + 1, <<rawLine>>))
        Line(rawLine) == Date(rawLine, LeadingDate(rawLine))
    IN  IF index > Len(lines) THEN <<>> ELSE Line(trim(lines[index]))

\* strategy 1, the table-header strategy
parseChimeStatementTable(lines) == TableLoop(lines, FindHeader(lines, 1) + 1)

\* the text of a match m in s, "" when there is no match
MatchText(s, m) == IF m.len = 0 THEN "" ELSE SubSeq(s, m.start, m.start + m.len - 1)

\* a date anywhere in a line: /(\d{1,2}\/\d{1,2}\/\d{2,4})/
SlashDateIn(line) == MatchText(line, FindDate(line, 1, SlashOnly, 2, FALSE))

\* how many lines after the date line the nearby-window strategy looks at
WindowSpan == 5

RECURSIVE FindTypeLine(_, _, _)
\* the first of the lines i .. i + WindowSpan with a type keyword, 0 when none
FindTypeLine(lines, i, j) ==
    IF j > WindowSpan \/ i + j > Len(lines) THEN 0
    ELSE IF findChimeType(toLowerCase(lines[i + j])).index > 0 THEN i + j
    ELSE FindTypeLine(lines, i, j + 1)

RECURSIVE FindAmountLine(_, _, _)
\* the first of the lines base .. base + WindowSpan with an amount token, 0 when none
FindAmountLine(lines, base, k) ==
    IF k > WindowSpan \/ base + k > Len(lines) THEN 0
    ELSE IF findFirstAmount(lines[base + k]) # "" THEN base + k
    ELSE FindAmountLine(lines, base, k + 1)

\* part && !part.match(datePattern) && !part.match(amountPattern)
IsMerchantPart(part) == part # "" /\ SlashDateIn(part) = "" /\ findFirstAmount(part) = ""

RECURSIVE MerchantParts(_, _, _)
\* the lines m .. endIdx that hold neither a date nor an amount
MerchantParts(lines, m, endIdx) ==
    IF m > endIdx THEN <<>>
    ELSE SelectSeq(<<trim(lines[m])>>, IsMerchantPart) \o MerchantParts(lines, m + 1, endIdx)

Min(a, b) == IF a < b THEN a ELSE b

Max(a, b) == IF a > b THEN a ELSE b

RECURSIVE NearbyLoop(_, _)
\* the while loop of parseChimeFormat from cursor i on
NearbyLoop(lines, i) ==
    LET Emit(transactionDate, base, amtLine, rawMerchant) ==
            IF amtLine = 0 THEN NearbyLoop(lines, i + 1)
            ELSE <<Txn(transactionDate, cleanMerchantName(rawMerchant), rawMerchant,
                       parseChimeAmount(findFirstAmount(lines[amtLine])))>>
                 \o NearbyLoop(lines, Max(i + 1, base + 1))
        Window(transactionDate, startIdx, typeIndex, base) ==
            Emit(transactionDate, base, FindAmountLine(lines, base, 0),
                 OrElse(collapseWhitespace(removeDates(removeAmounts(
                            JoinWith(MerchantParts(lines, startIdx,
                                                   IF typeIndex # 0 THEN typeIndex - 1
                                                   ELSE Min(i + 2, Len(lines))),
                                     " ")))),
                        "Unknown"))
        Type(transactionDate, startIdx, typeIndex) ==
            Window(transactionDate, startIdx, typeIndex,
                   IF typeIndex # 0 THEN typeIndex ELSE i)
        Date(line, dateText, transactionDate) ==
            IF transactionDate = "" THEN NearbyLoop(lines, i + 1)
            ELSE Type(transactionDate, i + (IF line = dateText THEN 1 ELSE 0),
                      FindTypeLine(lines, i, 0))
        Line(line, dateText) ==
            IF dateText = "" THEN NearbyLoop(lines, i + 1)
            ELSE Date(line, dateText, pdf_parseUSDate(dateText))
        Trimmed(line) == Line(line, SlashDateIn(line))
    IN  IF i > Len(lines) THEN <<>> ELSE Trimmed(trim(lines[i]))

\* strategy 2, the nearby-window strategy
parseChimeFormat(lines) == NearbyLoop(lines, 1)

\* i + 1 with the cursor left where it is
SameLine(i) == i

\* i++
NextLine(i) == i + 1

\* the line after the date line, whatever the type line
LineAfterDate(i, base) == i + 1

\* i = Math.max(i + 1, (typeIndex !== -1 ? typeIndex : i) + 1)
LineAfterAnchors(i, base) == Max(i + 1, base + 1)

\* one iteration of the while loop of parseChimeFormat at cursor i: whether
\* it emits, the transaction, the type line (0 when none) and the amount
\* line it used, and the cursor it leaves
NearbyIteration(lines, i) ==
    LET Skip == [emits |-> FALSE, txn |-> <<>>, type |-> 0, amount |-> 0,
                 next |-> NextLine(i)]
        Emit(transactionDate, typeIndex, base, amtLine, rawMerchant) ==
            IF amtLine = 0 THEN Skip
            ELSE [emits |-> TRUE,
                  txn |-> <<Txn(transactionDate, cleanMerchantName(rawMerchant), rawMerchant,
                                parseChimeAmount(findFirstAmount(lines[amtLine])))>>,
                  type |-> typeIndex,
                  amount |-> amtLine,
                  next |-> LineAfterAnchors(i, base)]
        Window(transactionDate, startIdx, typeIndex, base) ==
            Emit(transactionDate, typeIndex, base, FindAmountLine(lines, base, 0),
                 OrElse(collapseWhitespace(removeDates(removeAmounts(
                            JoinWith(MerchantParts(lines, startIdx,
                                                   IF typeIndex # 0 THEN typeIndex - 1
                                                   ELSE Min(i + 2, Len(lines))),
                                     " ")))),
                        "Unknown"))
        Type(transactionDate, startIdx, typeIndex) ==
            Window(transactionDate, startIdx, typeIndex,
                   IF typeIndex # 0 THEN typeIndex ELSE i)
        Date(line, dateText, transactionDate) ==
            IF transactionDate = "" THEN Skip
            ELSE Type(transactionDate, i + (IF line = dateText THEN 1 ELSE 0),
                      FindTypeLine(lines, i, 0))
        Line(line, dateText) ==
            IF dateText = "" THEN Skip
            ELSE Date(line, dateText, pdf_parseUSDate(dateText))
        Trimmed(line) == Line(line, SlashDateIn(line))
    IN  Trimmed(trim(lines[i]))

\* the first match of /(\d{1,2}[\/\-]\d{1,2}[\/\-]\d{2,4})/g in a line
AnyDateIn(line) == MatchText(line, FindDate(line, 1, SlashOrDash, 2, FALSE))

\* how many lines after the date line the generic strategy looks at
GenericSpan == 2

\* lines[i] || ''
LineOrEmpty(lines, i) == IF i <= Len(lines) THEN lines[i] ELSE ""

RECURSIVE GenericAmountText(_, _, _)
\* the last amount token of the first of the lines i .. i + GenericSpan that
\* holds one, "" when none does
GenericAmountText(lines, i, j) ==
    IF j > GenericSpan THEN ""
    ELSE OrElse(LastGenericAmount(LineOrEmpty(lines, i + j), 1, ""),
                GenericAmountText(lines, i, j + 1))

\* the description of the generic strategy
GenericDescription(line, nextLine) ==
    OrElse(OrElse(trim(StripGenericAmounts(ReplaceDates(line, 1, "", FALSE), 1)),
                  trim(StripGenericAmounts(nextLine, 1))),
           "Unknown Transaction")

\* one line of the generic strategy: the transactions (none or one) it gives
GenericLine(lines, i) ==
    LET Emit(date, description, amount) ==
            <<Txn(date, description, cleanMerchantName(description), amount)>>
        Amount(date, amtStr, amount) ==
            IF amtStr = "" \/ amount.cents = 0 THEN <<>>
            ELSE Emit(date, GenericDescription(lines[i], LineOrEmpty(lines, i + 1)), amount)
        AmountText(date, amtStr) == Amount(date, amtStr, parseChimeAmount(amtStr))
        Date(dateText, date) ==
            IF date = "" THEN <<>> ELSE AmountText(date, GenericAmountText(lines, i, 0))
        Line(dateText) ==
            IF dateText = "" THEN <<>> ELSE Date(dateText, pdf_parseUSDate(dateText))
    IN  Line(AnyDateIn(lines[i]))

RECURSIVE GenericLoop(_, _)
GenericLoop(lines, i) ==
    IF i > Len(lines) THEN <<>> ELSE GenericLine(lines, i) \o GenericLoop(lines, i + 1)

\* strategy 3, the generic date+amount strategy
parseGenericPDFFormat(lines) == GenericLoop(lines, 1)

(***************************************************************************)
(* Delimited-text parser of csv.ts.  A file is [header, rows]: the cells   *)
(* of its first line and of each data line.  Papa.parse gives one object   *)
(* per data line, keyed by the transformed header cells, and one error     *)
(* per line with fewer cells than the header; a missing cell reads as      *)
(* undefined, which every use below treats like "" (only the wording of a  *)
(* warning differs).                                                       *)
(***************************************************************************)
RECURSIVE KeyIndex(_, _, _)
\* the column of the first header cell equal to key, 0 when none
KeyIndex(keys, key, k) ==
    IF k > Len(keys) THEN 0
    ELSE IF keys[k] = key THEN k
    ELSE KeyIndex(keys, key, k + 1)

\* row[k]: "" stands for undefined
CellAt(row, k) == IF k = 0 \/ k > Len(row) THEN "" ELSE row[k]

\* row[key]
Cell(keys, row, key) == CellAt(row, KeyIndex(keys, key, 1))

\* what one row adds to the result
Outcome(txns, errs) == [transactions |-> txns, errors |-> errs]

\* the outcomes of a row and of the rows after it, in order
Then(one, rest) ==
    Outcome(one.transactions \o rest.transactions, one.errors \o rest.errors)

RECURSIVE PapaErrors(_, _, _)
\* result.errors, already formatted as `Row ${err.row}: ${err.message}`
PapaErrors(header, rows, k) ==
    IF k > Len(rows) THEN <<>>
    ELSE (IF Len(rows[k]) < Len(header)
          THEN <<"Row " \o NatToString(k - 1) \o ": Too few fields">>
          ELSE <<>>)
         \o PapaErrors(header, rows, k + 1)

\* one row of parseDiscoverCSV: what it adds to transactions and errors
DiscoverRow(keys, row) ==
    LET Emit(date, description, amount) ==
            Outcome(<<Txn(date, description, extractMerchantName(description), amount)>>, <<>>)
        Amount(date, rawAmount) ==
            IF isNaN(rawAmount)
            THEN Outcome(<<>>, <<"Invalid amount: " \o Cell(keys, row, "Amount")>>)
            ELSE Emit(date, OrElse(trim(Cell(keys, row, "Description")), "Unknown"),
                      Negate(rawAmount))
        Date(dateStr, date) ==
            IF date = "" THEN Outcome(<<>>, <<"Invalid date: " \o dateStr>>)
            ELSE Amount(date, parseFloat(Cell(keys, row, "Amount")))
        Row(dateStr) ==
            IF dateStr = "" THEN Outcome(<<>>, <<>>)
            ELSE Date(dateStr, csv_parseUSDate(dateStr))
    IN  Row(Cell(keys, row, "Trans. Date"))

RECURSIVE DiscoverLoop(_, _, _)
DiscoverLoop(keys, rows, k) ==
    IF k > Len(rows) THEN Outcome(<<>>, <<>>)
    ELSE Then(DiscoverRow(keys, rows[k]), DiscoverLoop(keys, rows, k + 1))

\* transformHeader: (header) => header.trim()
DiscoverKeys(header) == [k \in 1..Len(header) |-> trim(header[k])]

parseDiscoverCSV(csv) ==
    Then(Outcome(<<>>, PapaErrors(csv.header, csv.rows, 1)),
         DiscoverLoop(DiscoverKeys(csv.header), csv.rows, 1))

RECURSIVE FindColumn(_, _, _)
\* headers.find((h) => names.includes(h)): "" stands for undefined
FindColumn(headers, names, k) ==
    IF k > Len(headers) THEN ""
    ELSE IF headers[k] \in names THEN headers[k]
    ELSE FindColumn(headers, names, k + 1)

DateColumns == {"date", "trans. date", "transaction date", "trans date", "posted date"}

DescColumns == {"description", "merchant", "name", "memo", "payee"}

AmountColumns == {"amount", "transaction amount"}

DebitColumns == {"debit", "withdrawal", "withdrawals"}

CreditColumns == {"credit", "deposit", "deposits"}

\* debitCol ? parseAmount(row[debitCol] || '0') : 0
ColumnAmount(keys, row, col) ==
    IF col # "" THEN parseAmount(OrElse(Cell(keys, row, col), "0")) ELSE Num(0)

\* the amount of a row of parseGenericCSV
RowAmount(keys, row, amountCol, debitCol, creditCol) ==
    IF amountCol # "" /\ Cell(keys, row, amountCol) # ""
    THEN parseAmount(Cell(keys, row, amountCol))
    ELSE Minus(ColumnAmount(keys, row, creditCol), ColumnAmount(keys, row, debitCol))

\* one row of parseGenericCSV: what it adds to transactions and errors
GenericRow(keys, row, dateCol, descCol, amountCol, debitCol, creditCol) ==
    LET Emit(date, description, amount) ==
            Outcome(<<Txn(date, description, extractMerchantName(description), amount)>>, <<>>)
        Amount(date, amount) ==
            IF isNaN(amount) THEN Outcome(<<>>, <<"Invalid amount in row">>)
            ELSE Emit(date, OrElse(trim(Cell(keys, row, descCol)), "Unknown"), amount)
        Date(dateStr, date) ==
            IF date = "" THEN Outcome(<<>>, <<"Invalid date: " \o dateStr>>)
            ELSE Amount(date, RowAmount(keys, row, amountCol, debitCol, creditCol))
        Row(dateStr) ==
            IF dateStr = "" THEN Outcome(<<>>, <<>>)
            ELSE Date(dateStr, csv_parseUSDate(dateStr))
    IN  Row(Cell(keys, row, dateCol))

RECURSIVE GenericRows(_, _, _, _, _, _, _, _)
GenericRows(keys, rows, k, dateCol, descCol, amountCol, debitCol, creditCol) ==
    IF k > Len(rows) THEN Outcome(<<>>, <<>>)
    ELSE Then(GenericRow(keys, rows[k], dateCol, descCol, amountCol, debitCol, creditCol),
              GenericRows(keys, rows, k + 1, dateCol, descCol, amountCol, debitCol, creditCol))

\* transformHeader: (header) => header.trim().toLowerCase()
GenericKeys(header) == [k \in 1..Len(header) |-> toLowerCase(trim(header[k]))]

\* Object.keys(result.data[0] || {})
FirstRowKeys(keys, rows) ==
    IF Len(rows) = 0 THEN <<>> ELSE SubSeq(keys, 1, Min(Len(keys), Len(rows[1])))

parseGenericCSV(csv) ==
    LET Columns(keys, dateCol, descCol, amountCol, debitCol, creditCol) ==
            IF dateCol = "" THEN Outcome(<<>>, <<"Could not find date column">>)
            ELSE IF descCol = "" THEN Outcome(<<>>, <<"Could not find description column">>)
            ELSE IF amountCol = "" /\ debitCol = "" /\ creditCol = ""
                 THEN Outcome(<<>>, <<"Could not find amount column">>)
            ELSE GenericRows(keys, csv.rows, 1, dateCol, descCol, amountCol, debitCol,
                             creditCol)
        Headers(keys, headers) ==
            Columns(keys,
                    FindColumn(headers, DateColumns, 1),
                    FindColumn(headers, DescColumns, 1),
                    FindColumn(headers, AmountColumns, 1),
                    FindColumn(headers, DebitColumns, 1),
                    FindColumn(headers, CreditColumns, 1))
        Keys(keys) == Headers(keys, FirstRowKeys(keys, csv.rows))
    IN  Then(Outcome(<<>>, PapaErrors(csv.header, csv.rows, 1)), Keys(GenericKeys(csv.header)))

\* the format sniff of parseCSV on the lower-cased first line of the file
IsDiscoverFirstLine(firstLine) ==
    includes(firstLine, "trans. date") /\ includes(firstLine, "post date")

IsDiscoverLayout(csv) == IsDiscoverFirstLine(toLowerCase(JoinWith(csv.header, ",")))

parseCSV(csv) == IF IsDiscoverLayout(csv) THEN parseDiscoverCSV(csv) ELSE parseGenericCSV(csv)

(***************************************************************************)
(* Category auto-tagger: categorizeByMerchant of pdf.ts (csv.ts holds the  *)
(* same function, statement for statement).                                *)
(***************************************************************************)
\* the keywords that make a positive amount Income
IncomeKeywords ==
    << "payroll", "direct dep", "salary", "employer", "wage" >>

\* the keywords that make a positive amount a Transfer
PeerTransferKeywords ==
    << "transfer", "zelle", "venmo", "cash app", "paypal" >>

\* the keyword tables of an amount that is not positive, in the order of the
\* if statements (groceries are a second table of Food & Drink)
CategoryTables ==
    <<
      [ label |-> "Food & Drink",
        keywords |->
          << "mcdonald", "burger", "wendy", "taco bell", "chipotle", "subway",
             "starbucks", "dunkin", "coffee", "pizza", "domino", "papa john",
             "grubhub", "doordash", "uber eat", "postmates", "restaurant", "cafe",
             "diner", "grill", "kitchen", "bakery", "chick-fil", "popeye", "kfc",
             "arby", "sonic", "panera", "noodle", "sushi", "panda express",
             "five guys", "in-n-out", "whataburger", "jack in the box", "del taco",
             "wingstop", "buffalo wild", "ihop", "denny", "waffle", "cracker barrel",
             "applebee", "chili", "olive garden", "red lobster", "outback",
             "texas roadhouse", "longhorn", "cheesecake factory", "pf chang" >> ],
      [ label |-> "Food & Drink",
        keywords |->
          << "walmart", "target", "kroger", "safeway", "publix", "whole foods",
             "trader joe", "aldi", "costco", "sam's club", "grocery", "market",
             "food lion", "giant", "wegmans", "heb", "meijer", "sprouts", "fresh",
             "albertson", "vons", "ralph", "food" >> ],
      [ label |-> "Shopping",
        keywords |->
          << "amazon", "ebay", "etsy", "best buy", "apple store", "microsoft", "nike",
             "adidas", "foot locker", "nordstrom", "macy", "jcpenney", "kohl", "ross",
             "tj maxx", "marshalls", "burlington", "old navy", "gap", "h&m", "zara",
             "forever 21", "urban outfitters", "home depot", "lowe", "ikea",
             "bed bath", "pottery barn", "williams sonoma", "crate", "dollar",
             "five below", "big lots", "walgreens", "cvs", "rite aid", "ulta",
             "sephora", "bath & body", "victoria", "shop", "store", "mall", "outlet" >> ],
      [ label |-> "Transportation",
        keywords |->
          << "uber", "lyft", "taxi", "gas", "shell", "exxon", "chevron", "bp", "mobil",
             "sunoco", "speedway", "wawa", "sheetz", "quiktrip", "racetrac",
             "circle k", "7-eleven", "fuel", "petro", "parking", "toll", "metro",
             "transit", "bus", "train", "amtrak", "greyhound", "autozone",
             "advance auto", "o'reilly", "jiffy lube", "valvoline", "car wash", "tire",
             "mechanic", "auto" >> ],
      [ label |-> "Entertainment",
        keywords |->
          << "netflix", "hulu", "disney", "hbo", "spotify", "apple music", "youtube",
             "amazon prime", "paramount", "peacock", "amc", "regal", "cinema", "movie",
             "theater", "concert", "ticketmaster", "stubhub", "live nation",
             "playstation", "xbox", "nintendo", "steam", "game", "twitch", "arcade",
             "bowling", "golf", "gym", "fitness", "planet fitness", "24 hour",
             "anytime", "equinox", "orangetheory", "crossfit", "yoga", "spa",
             "massage", "salon", "barber", "nail" >> ],
      [ label |-> "Bills & Utilities",
        keywords |->
          << "electric", "power", "energy", "water", "sewer", "gas bill", "utility",
             "internet", "comcast", "xfinity", "spectrum", "at&t", "verizon",
             "t-mobile", "sprint", "phone", "wireless", "mobile", "cable", "directv",
             "dish", "insurance", "geico", "progressive", "state farm", "allstate",
             "liberty mutual", "rent", "lease", "mortgage", "hoa", "property",
             "apartment", "landlord" >> ],
      [ label |-> "Health",
        keywords |->
          << "pharmacy", "drug", "rx", "medical", "doctor", "hospital", "clinic",
             "urgent care", "dental", "dentist", "orthodont", "vision", "optom", "eye",
             "glasses", "contacts", "therapy", "counseling", "mental health", "lab",
             "diagnostic", "imaging", "xray", "mri" >> ],
      [ label |-> "Travel",
        keywords |->
          << "airline", "delta", "united", "american air", "southwest", "jetblue",
             "frontier", "spirit", "alaska air", "flight", "airport", "tsa", "hotel",
             "marriott", "hilton", "hyatt", "ihg", "wyndham", "best western", "motel",
             "airbnb", "vrbo", "booking.com", "expedia", "kayak", "priceline",
             "tripadvisor", "hertz", "enterprise", "avis", "budget", "national car",
             "rental car", "cruise", "carnival", "royal caribbean" >> ],
      [ label |-> "Transfer",
        keywords |->
          << "transfer", "zelle", "venmo", "cash app", "paypal", "wire", "ach",
             "withdrawal", "atm" >> ]
    >>

\* name.includes(k1) || name.includes(k2) || ...
AnyKeywordIn(name, keywords) == \E k \in 1..Len(keywords) : includes(name, keywords[k])

RECURSIVE LastCategory(_, _)
\* a chain of tables in which the last table that matches wins
LastCategory(name, k) ==
    LET Later(label) ==
            IF label # "Other" THEN label
            ELSE IF AnyKeywordIn(name, CategoryTables[k].keywords)
                 THEN CategoryTables[k].label
            ELSE "Other"
    IN  IF k > Len(CategoryTables) THEN "Other" ELSE Later(LastCategory(name, k + 1))

RECURSIVE FirstCategory(_, _)
\* the chain of if statements from table k on: the label of the first table
\* with a keyword in name, 'Other' when there is none
FirstCategory(name, k) ==
    IF k > Len(CategoryTables) THEN "Other"
    ELSE IF AnyKeywordIn(name, CategoryTables[k].keywords) THEN CategoryTables[k].label
    ELSE FirstCategory(name, k + 1)

\* amount > 0 of JavaScript: false for NaN
IsPositive(amount) == ~amount.nan /\ amount.cents > 0

categorizeByMerchant(merchantName, amount) ==
    LET Label(name) ==
            IF IsPositive(amount)
            THEN (IF AnyKeywordIn(name, IncomeKeywords) THEN "Income"
                  ELSE IF AnyKeywordIn(name, PeerTransferKeywords) THEN "Transfer"
                  ELSE "Income")
            ELSE FirstCategory(name, 1)
    IN  Label(toLowerCase(merchantName))

(***************************************************************************)
(* Essential/flex scorer (the spend-mix module, src/unnamed/part_005).  A  *)
(* null field of a transaction is "".                                      *)
(***************************************************************************)
ESSENTIAL_CATEGORY_KEYWORDS ==
    << "rent", "mortgage", "housing", "utility", "utilities", "electric",
       "electricity", "water", "gas bill", "gas utility", "internet", "phone",
       "cellular", "mobile service", "insurance", "medical", "health", "dental",
       "vision", "pharmacy", "prescription", "education", "tuition", "textbook",
       "student loan", "fees", "transportation", "public transit", "transit", "bus",
       "rail", "metro", "fuel", "gasoline", "grocery", "groceries", "supermarket",
       "market", "wholesale club", "childcare", "child care", "daycare", "baby" >>

ESSENTIAL_MERCHANT_KEYWORDS ==
    << "con ed", "consolidated edison", "national grid", "verizon", "spectrum",
       "xfinity", "comcast", "att", "at&t", "t-mobile", "tmobile", "fios", "directv",
       "geico", "state farm", "progressive", "allstate", "liberty mutual", "metlife",
       "kaiser", "blue cross", "united healthcare", "walmart", "walmart supercenter",
       "walmart neighborhood", "whole foods", "trader joe", "costco", "aldi", "kroger",
       "publix", "heb", "safeway", "meijer", "target", "wegmans", "food lion", "winco",
       "bj's", "sam's club", "stop & shop", "giant food", "raley", "vons",
       "fred meyer", "trader joe's", "piggly wiggly", "tops friendly", "shoprite",
       "food town", "99 ranch", "h mart", "mta", "path", "bart", "metrocard", "metra",
       "cta", "mbta", "octa", "transit authority", "shell", "exxon", "bp ", "chevron",
       "mobil", "sunoco", "speedway", "valero", "wawa", "sheetz", "quiktrip",
       "racetrac", "circle k", "7-eleven", "7 eleven", "pilot travel", "love's travel" >>

FLEX_CATEGORY_KEYWORDS ==
    << "restaurant", "dining", "fast food", "bar", "coffee", "alcohol",
       "entertainment", "subscription", "shopping", "fashion", "electronics", "gift",
       "travel", "vacation", "gaming", "food and drink", "nightlife", "movie",
       "cinema", "concert" >>

\* (value || '').toLowerCase()
normalize(value) == toLowerCase(value)

\* keywords.some((keyword) => text.includes(keyword))
containsKeyword(text, keywords) == \E k \in 1..Len(keywords) : includes(text, keywords[k])

\* a scorer in which every match is worth one point
scoreCategoriesUnweighted(category, merchant) ==
    [essential |-> (IF containsKeyword(category, ESSENTIAL_CATEGORY_KEYWORDS) THEN 1 ELSE 0)
                   + (IF containsKeyword(merchant, ESSENTIAL_CATEGORY_KEYWORDS) THEN 1 ELSE 0)
                   + (IF containsKeyword(merchant, ESSENTIAL_MERCHANT_KEYWORDS) THEN 1 ELSE 0),
     flex      |-> (IF containsKeyword(category, FLEX_CATEGORY_KEYWORDS) THEN 1 ELSE 0)
                   + (IF containsKeyword(merchant, FLEX_CATEGORY_KEYWORDS) THEN 1 ELSE 0)]

scoreCategories(category, merchant) ==
    [essential |-> (IF containsKeyword(category, ESSENTIAL_CATEGORY_KEYWORDS) THEN 2 ELSE 0)
                   + (IF containsKeyword(merchant, ESSENTIAL_CATEGORY_KEYWORDS) THEN 1 ELSE 0)
                   + (IF containsKeyword(merchant, ESSENTIAL_MERCHANT_KEYWORDS) THEN 3 ELSE 0),
     flex      |-> (IF containsKeyword(category, FLEX_CATEGORY_KEYWORDS) THEN 2 ELSE 0)
                   + (IF containsKeyword(merchant, FLEX_CATEGORY_KEYWORDS) THEN 2 ELSE 0)]

\* a table of overrides that holds no entry
noManualOverrides(merchant) == ""

\* applyManualOverrides: "" stands for null
applyManualOverrides(merchant) ==
    IF includes(merchant, "landlord") \/ includes(merchant, "property management")
    THEN "essential"
    ELSE IF includes(merchant, "spotify") \/ includes(merchant, "netflix")
            \/ includes(merchant, "hulu")
         THEN "flex"
    ELSE ""

\* [merchant, name].filter(Boolean).join(' ')
CombinedMerchant(merchant, name) ==
    JoinWith(SelectSeq(<<merchant, name>>, LAMBDA part : part # ""), " ")

\* transaction.amount >= 0 of JavaScript: false for NaN
IsNotNegative(amount) == ~amount.nan /\ amount.cents >= 0

classifyTransaction(transaction) ==
    LET Decide(category, score) ==
            IF score.essential >= 3 /\ score.flex <= score.essential THEN "essential"
            ELSE IF score.flex >= 2 /\ score.flex > score.essential THEN "flex"
            ELSE IF containsKeyword(category, ESSENTIAL_CATEGORY_KEYWORDS) THEN "essential"
            ELSE "flex"
        Override(category, combinedMerchant, override) ==
            IF override # "" THEN override
            ELSE Decide(category, scoreCategories(category, combinedMerchant))
        Combined(category, combinedMerchant) ==
            Override(category, combinedMerchant, applyManualOverrides(combinedMerchant))
    IN  IF IsNotNegative(transaction.amount) THEN "flex"
        ELSE Combined(normalize(transaction.category),
                      CombinedMerchant(normalize(transaction.merchant_name),
                                       normalize(transaction.name)))

(***************************************************************************)
(* Deduplicator (deduplicateTransactions, src/unnamed/part_006).           *)
(***************************************************************************)
\* `${amount}`: the shortest decimal text of a number given in hundredths
NumberToString(amount) ==
    LET Fraction(hundredths) ==
            IF hundredths = 0 THEN ""
            ELSE IF hundredths % 10 = 0 THEN "." \o NatToString(hundredths \div 10)
            ELSE "." \o padStart2(NatToString(hundredths))
        Magnitude(c) == NatToString(c \div 100) \o Fraction(c % 100)
    IN  IF amount.nan THEN "NaN"
        ELSE (IF amount.cents < 0 THEN "-" ELSE "") \o Magnitude(AbsInt(amount.cents))

\* a key that leaves the merchant out
DedupKeyWithoutMerchant(t) == t.date \o "-" \o NumberToString(t.amount)

\* `${t.date}-${t.amount}-${t.merchant_name}`
DedupKey(t) == t.date \o "-" \o NumberToString(t.amount) \o "-" \o t.merchant_name

RECURSIVE FilterUnseen(_, _, _)
\* transactions.filter(...) from entry k on, seen holding the keys met so far
FilterUnseen(txns, k, seen) ==
    IF k > Len(txns) THEN <<>>
    ELSE IF DedupKey(txns[k]) \in seen THEN FilterUnseen(txns, k + 1, seen)
    ELSE <<txns[k]>> \o FilterUnseen(txns, k + 1, seen \cup {DedupKey(txns[k])})

deduplicateTransactions(txns) == FilterUnseen(txns, 1, {})

(***************************************************************************)
(* Inputs of the model.                                                    *)
(***************************************************************************)
\* the longest statement, in reconstructed lines
MaxLines == 2

\* the longest delimited file, in data rows
MaxRows == 2

SampleLines ==
    { "Transaction Date Description Type Amount",
      "01/15/2024 STARBUCKS Purchase -$4.50",
      "1/5/24 RENT (12.34)",
      "on 01/15/2024 CAFE (12.34)",
      "on 01-15-2024 CAFE (12.34)",
      "13/01/2024 SHOP 5.00",
      "02/01/2024 REFUND -7.00 CR" }

DiscoverHeader == <<"Trans. Date", "Post Date", "Description", "Amount", "Category">>

AmountHeader == <<"Date", "Description", "Amount">>

DebitCreditHeader == <<"Date", "Description", "Debit", "Credit">>

NoDateHeader == <<"Posted", "Description", "Amount">>

NoDescriptionHeader == <<"Date", "Details", "Amount">>

NoAmountHeader == <<"Date", "Description", "Value">>

MixedHeader == <<"Date", "Description", "Amount", "Debit", "Credit">>

SampleHeaders ==
    {DiscoverHeader, AmountHeader, DebitCreditHeader, NoDateHeader, NoDescriptionHeader,
     NoAmountHeader, MixedHeader}

SampleRows(header) ==
    IF header = DiscoverHeader
    THEN { <<"01/15/2024", "01/16/2024", "STARBUCKS  #123", "45.67", "Restaurants">>,
           <<"01/20/2024", "01/21/2024", "PAYMENT", "-100.00", "Payments">>,
           <<"02/01/2024", "02/02/2024", "LAPTOP", "1,234.56", "Merchandise">>,
           <<"1/5/24", "1/6/24", "CAFE", "4.50", "">>,
           <<"13/01/2024", "13/02/2024", "SHOP", "5.00", "">>,
           <<"", "", "FEE", "abc", "">>,
           <<"03/01/2024", "03/02/2024", "FEE", "abc">> }
    ELSE IF header = DebitCreditHeader
    THEN { <<"01/15/2024", "RENT", "950.00", "">>,
           <<"01/16/2024", "PAYROLL", "", "1,500.00">>,
           <<"", "NOTE", "", "">>,
           <<"1/5/24", "CAFE", "4.50", "">> }
    ELSE IF header = MixedHeader
    THEN { <<"01/15/2024", "RENT", "", "950.00", "">>,
           <<"01/16/2024", "PAYROLL", "", "", "1,500.00">>,
           <<"01/17/2024", "SHOES", "-30.00", "5.00", "">>,
           <<"01/18/2024", "HOLD">> }
    ELSE { <<"01/15/2024", "STARBUCKS", "-4.50">>,
           <<"01/16/2024", "REFUND", "(1,234.50)">>,
           <<"01/17/2024", "FEE", "12.00-">>,
           <<"01/18/2024", "CREDIT", "-45.00 CR">>,
           <<"", "NOTE", "1.00">>,
           <<"13/01/2024", "SHOP", "5.00">> }

\* reconstructed lines given to one segmentation strategy on its own: every
\* line with a date starts with it
SegmenterLines ==
    { "01/15/2024 STARBUCKS Purchase -$4.50",
      "01/16/2024 COFFEE pending",
      "01/17/2024 ADJUST $0.00",
      "01/18/2024 WAIVED 0.00",
      "01/19/2024 -$9.99",
      "01/20/2024 SAVINGS Round Up Transfer -$0.50",
      "STARBUCKS" }

SeqsUpTo(S, n) == UNION {[1..k -> S] : k \in 0..n}

NoCsv == [header |-> <<>>, rows |-> <<>>]

NoPdf == [malformed |-> FALSE, lines |-> <<>>]

\* amount strings: a sign or currency prefix, a magnitude, a sign suffix
AmountLeads == {"", "-", "$", "-$", "("}

AmountMagnitudes == {"12.00", "45.00", "1,234.50"}

AmountTrails == {"", "-", " CR", ")", ") CR", "- CR"}

AmountTexts ==
    {l \o m \o t : l \in AmountLeads, m \in AmountMagnitudes, t \in AmountTrails}

\* date strings: month, day and year joined by a separator, and an ISO date
DateTexts ==
    {m \o p \o d \o p \o y :
        m \in {"1", "01", "13"}, d \in {"5", "31"}, y \in {"24", "50", "51", "2024"},
        p \in {"/", "-"}}
    \cup {"2024-01-05"}

NoOutcome == [csv |-> "", pdf |-> ""]

\* the fields of the transactions given to the two classifiers
SampleMerchants ==
    { "", "Acme Corp", "Payroll Inc", "Zelle Transfer", "Starbucks Coffee", "Uber Eats",
      "Amazon Prime", "Gas Bill Co", "Walmart", "Costco Coffee Bar", "Landlord Bar",
      "Property Management Co", "Verizon Netflix Bundle", "Delta Airlines" }

SampleCategories == {"", "Rent", "Shopping", "Grocery Shopping", "Restaurants"}

SampleNames == {"", "HULU 877-8244858", "Monthly transfer"}

\* raw descriptions: something in front, a merchant, something behind
MerchantLeads == {"", "POS ", "#", "* ", "  "}

MerchantBodies == {"STARBUCKS", "Blue Bottle", "cvs", "Toys R us"}

MerchantTrails ==
    {"", "  SEATTLE WA", "#123", "*4567", " APPLE PAY ENDING 1234", " apple pay ending 99"}

MerchantTexts ==
    {l \o b \o t : l \in MerchantLeads, b \in MerchantBodies, t \in MerchantTrails}

SampleAmounts == {Num(-450), Num(0), Num(200000)}

\* the longest list given to the deduplicator
MaxTransactions == 3

\* transactions given to the deduplicator: the first two differ in name only,
\* each of the others differs from the first in one field of the key
SampleTransactions ==
    { Txn("2024-01-05", "STARBUCKS #123", "Starbucks", Num(-450)),
      Txn("2024-01-05", "STARBUCKS #456", "Starbucks", Num(-450)),
      Txn("2024-01-06", "STARBUCKS #123", "Starbucks", Num(-450)),
      Txn("2024-01-05", "STARBUCKS #123", "Starbucks", Num(450)),
      Txn("2024-01-05", "STARBUCKS #123", "Starbucks-Reserve", Num(-450)) }

(***************************************************************************)
(* The pipeline as a state machine: one call of parseCSV, or one call of   *)
(* parsePDF taken step by step.  A second machine gives one string to the  *)
(* normalizers of both parsers.                                            *)
(***************************************************************************)
VARIABLES
    pc,            \* where the call stands: "idle", "extracting", "table",
                   \* "nearby", "generic", "collect", "returned"; for the
                   \* normalizers "given", "normalized"
    kind,          \* "none", "csv" or "pdf"; for the normalizers "amount", "date"
    csvInput,      \* the delimited file given to parseCSV
    pdfInput,      \* the buffer given to parsePDF: what pdf2json makes of it
    lines,         \* parsePDF: the reconstructed lines
    parsed,        \* parsePDF: the local variable parsed
    transactions,  \* the transactions of the result
    errors,        \* the errors of the result
    invoked,       \* history: the strategies parsePDF has called, in order
    yields,        \* history: how many transactions each of them returned
    threw,         \* history: whether the try block of parsePDF was left by an exception
    raw,           \* the value given to a function taken on its own
    normalized,    \* what the function made of it (the normalizers: what that
                   \* of csv.ts and that of pdf.ts made of it)
    outcomes,      \* a segmentation strategy step by step: the outcome of the
                   \* iteration at each cursor
    cursor,        \* its line cursor
    folding,       \* the table strategy: the row being folded
    anchors,       \* history: for each transaction the nearby-window strategy
                   \* emitted, its date line, type line and amount line
    pages,         \* the layout reconstructor: the Texts of each page
    pageNo,        \* the page it is at
    textElements,  \* the text elements of the page it reconstructed last
    lineGroups,    \* and their line groups, in the order of the Map
    imports,       \* the API routes: the rows of table imports
    storedRows,    \* the rows of table transactions
    requests,      \* the requests: what each asks for, where its handler
                   \* stands, the handler's local variables, its response
    nextId,        \* the next identifier the database generates
    hook,          \* the data hooks: the state and the ref of the hook
    fetches,       \* the network requests it has started, oldest first
    localStorage   \* the cached payload of each range

vars == <<pc, kind, csvInput, pdfInput, lines, parsed, transactions, errors, invoked,
          yields, threw, raw, normalized, outcomes, cursor, folding,
          anchors, pages, pageNo, textElements, lineGroups, imports, storedRows,
          requests, nextId, hook, fetches, localStorage>>

normalizerVars == <<raw, normalized>>

pipelineVars == <<csvInput, pdfInput, lines, parsed, transactions, errors, invoked,
                  yields, threw>>

segmenterVars == <<outcomes, cursor, folding, anchors>>

layoutVars == <<pages, pageNo, textElements, lineGroups>>

serverVars == <<imports, storedRows, requests, nextId>>

hookVars == <<hook, fetches, localStorage>>

\* the variables of the machines that take one part of the program step by step
stepVars == <<segmenterVars, layoutVars, serverVars, hookVars>>

NoRow == [start |-> 0, rowLines |-> <<>>]

\* no strategy is being stepped through
SegmenterIdle ==
    /\ outcomes = <<>>
    /\ cursor = 0
    /\ folding = NoRow
    /\ anchors = <<>>

\* no file is being reconstructed
LayoutIdle ==
    /\ pages = <<>>
    /\ pageNo = 0
    /\ textElements = <<>>
    /\ lineGroups = <<>>

\* no API route is serving
ServerIdle ==
    /\ imports = {}
    /\ storedRows = {}
    /\ requests = <<>>
    /\ nextId = 1

\* no hook is mounted
HookIdle ==
    /\ hook = <<>>
    /\ fetches = <<>>
    /\ localStorage = <<>>

StepsIdle == SegmenterIdle /\ LayoutIdle /\ ServerIdle /\ HookIdle

\* nothing has been given to the pipeline
PipelineIdle ==
    /\ csvInput = NoCsv
    /\ pdfInput = NoPdf
    /\ lines = <<>>
    /\ parsed = <<>>
    /\ transactions = <<>>
    /\ errors = <<>>
    /\ invoked = <<>>
    /\ yields = <<>>
    /\ threw = FALSE

Init ==
    /\ pc = "idle"
    /\ kind = "none"
    /\ PipelineIdle
    /\ StepsIdle
    /\ raw = ""
    /\ normalized = NoOutcome

\* the state after parseCSV(csv) returned result
ReturnCSV(csv, result) ==
    /\ csvInput' = csv
    /\ transactions' = result.transactions
    /\ errors' = result.errors

\* parseCSV(csvContent), a synchronous call
CallParseCSV ==
    /\ pc = "idle"
    /\ \E h \in SampleHeaders :
         \E r \in SeqsUpTo(SampleRows(h), MaxRows) :
            ReturnCSV([header |-> h, rows |-> r], parseCSV([header |-> h, rows |-> r]))
    /\ kind' = "csv"
    /\ pc' = "returned"
    /\ UNCHANGED <<pdfInput, lines, parsed, invoked, yields, threw>>
    /\ UNCHANGED normalizerVars
    /\ UNCHANGED stepVars

\* parsePDF(pdfBuffer) is entered: await extractLinesFromPDF(pdfBuffer)
CallParsePDF ==
    /\ pc = "idle"
    /\ \E m \in BOOLEAN :
         \E ls \in (IF m THEN {<<>>} ELSE SeqsUpTo(SampleLines, MaxLines)) :
            pdfInput' = [malformed |-> m, lines |-> ls]
    /\ kind' = "pdf"
    /\ pc' = "extracting"
    /\ UNCHANGED <<csvInput, lines, parsed, transactions, errors, invoked, yields, threw>>
    /\ UNCHANGED normalizerVars
    /\ UNCHANGED stepVars

\* pdfParser_dataReady: the promise resolves with the lines
ExtractResolves ==
    /\ pc = "extracting"
    /\ ~pdfInput.malformed
    /\ lines' = pdfInput.lines
    /\ IF Len(pdfInput.lines) = 0
       THEN /\ errors' = Append(errors, "No text could be extracted from the PDF")
            /\ pc' = "returned"
       ELSE /\ errors' = errors
            /\ pc' = "table"
    /\ UNCHANGED <<kind, csvInput, pdfInput, parsed, transactions, invoked, yields, threw>>
    /\ UNCHANGED normalizerVars
    /\ UNCHANGED stepVars

\* a catch block that swallows the exception without recording it
CatchErrorSilently(errs, message) == errs

\* the catch block of parsePDF
CatchError(errs, message) == Append(errs, "Failed to parse PDF: " \o message)

\* pdfParser_dataError: the promise rejects and the catch block runs
ExtractRejects ==
    /\ pc = "extracting"
    /\ pdfInput.malformed
    /\ errors' = CatchError(errors, "Invalid PDF structure")
    /\ threw' = TRUE
    /\ pc' = "returned"
    /\ UNCHANGED <<kind, csvInput, pdfInput, lines, parsed, transactions, invoked, yields>>
    /\ UNCHANGED normalizerVars
    /\ UNCHANGED stepVars

\* a chain that runs the next strategy whatever the previous one found
AlwaysTryNext(result) == TRUE

\* if (parsed.length === 0): the next strategy is tried
ShouldTryNext(result) == Len(result) = 0

\* let parsed = parseChimeStatementTable(lines)
RunTableStrategy ==
    /\ pc = "table"
    /\ parsed' = parseChimeStatementTable(lines)
    /\ invoked' = Append(invoked, "table")
    /\ yields' = Append(yields, Len(parsed'))
    /\ pc' = IF ShouldTryNext(parsed') THEN "nearby" ELSE "collect"
    /\ UNCHANGED <<kind, csvInput, pdfInput, lines, transactions, errors, threw>>
    /\ UNCHANGED normalizerVars
    /\ UNCHANGED stepVars

\* parsed = parseChimeFormat(lines, errors)
RunNearbyStrategy ==
    /\ pc = "nearby"
    /\ parsed' = parseChimeFormat(lines)
    /\ invoked' = Append(invoked, "nearby")
    /\ yields' = Append(yields, Len(parsed'))
    /\ pc' = IF ShouldTryNext(parsed') THEN "generic" ELSE "collect"
    /\ UNCHANGED <<kind, csvInput, pdfInput, lines, transactions, errors, threw>>
    /\ UNCHANGED normalizerVars
    /\ UNCHANGED stepVars

\* parsed = parseGenericPDFFormat(lines, errors)
RunGenericStrategy ==
    /\ pc = "generic"
    /\ parsed' = parseGenericPDFFormat(lines)
    /\ invoked' = Append(invoked, "generic")
    /\ yields' = Append(yields, Len(parsed'))
    /\ pc' = "collect"
    /\ UNCHANGED <<kind, csvInput, pdfInput, lines, transactions, errors, threw>>
    /\ UNCHANGED normalizerVars
    /\ UNCHANGED stepVars

RECURSIVE SampleText(_, _)
\* lines.slice(0, 10).map((l, i) => `Line ${i}: "${l}"`).join('; ')
SampleText(ls, k) ==
    IF k > Len(ls) \/ k > 10 THEN ""
    ELSE (IF k > 1 THEN "; " ELSE "") \o "Line " \o NatToString(k - 1) \o ": \"" \o ls[k] \o "\""
         \o SampleText(ls, k + 1)

\* transactions.push(...parsed), the diagnostics of a total failure, return
CollectAndReturn ==
    /\ pc = "collect"
    /\ transactions' = transactions \o parsed
    /\ errors' = IF Len(transactions') = 0
                 THEN errors \o
                      << "Could not find transactions. Extracted "
                            \o NatToString(Len(lines)) \o " text segments from PDF.",
                         "Sample extracted text: " \o SampleText(lines, 1) >>
                 ELSE errors
    /\ pc' = "returned"
    /\ UNCHANGED <<kind, csvInput, pdfInput, lines, parsed, invoked, yields, threw>>
    /\ UNCHANGED normalizerVars
    /\ UNCHANGED stepVars

Next ==
    \/ CallParseCSV
    \/ CallParsePDF
    \/ ExtractResolves
    \/ ExtractRejects
    \/ RunTableStrategy
    \/ RunNearbyStrategy
    \/ RunGenericStrategy
    \/ CollectAndReturn

Spec == Init /\ [][Next]_vars

(***************************************************************************)
(* The normalizers on their own: one string is given to the amount         *)
(* normalizers, or to the date normalizers, of both parsers.               *)
(***************************************************************************)
NormalizerInit ==
    /\ pc = "given"
    /\ \/ kind = "amount" /\ raw \in AmountTexts
       \/ kind = "date" /\ raw \in DateTexts
    /\ normalized = NoOutcome
    /\ PipelineIdle
    /\ StepsIdle

\* parseAmount(raw) of csv.ts and parseChimeAmount(raw) of pdf.ts
NormalizeAmount ==
    /\ pc = "given"
    /\ kind = "amount"
    /\ normalized' = [csv |-> parseAmount(raw), pdf |-> parseChimeAmount(raw)]
    /\ pc' = "normalized"
    /\ UNCHANGED <<kind, raw>>
    /\ UNCHANGED pipelineVars
    /\ UNCHANGED stepVars

\* parseUSDate(raw) of csv.ts and parseUSDate(raw) of pdf.ts
NormalizeDate ==
    /\ pc = "given"
    /\ kind = "date"
    /\ normalized' = [csv |-> csv_parseUSDate(raw), pdf |-> pdf_parseUSDate(raw)]
    /\ pc' = "normalized"
    /\ UNCHANGED <<kind, raw>>
    /\ UNCHANGED pipelineVars
    /\ UNCHANGED stepVars

NormalizerNext ==
    \/ NormalizeAmount
    \/ NormalizeDate

NormalizerSpec == NormalizerInit /\ [][NormalizerNext]_vars

(***************************************************************************)
(* The parser functions on their own: one delimited file is given to       *)
(* parseDiscoverCSV or to parseGenericCSV, or the lines of one statement   *)
(* are given to one of the three segmentation strategies of pdf.ts.        *)
(***************************************************************************)
CsvParsers == {"discover", "delimited"}

PdfStrategies == {"table", "nearby", "generic"}

ParserInit ==
    /\ pc = "given"
    /\ \/ /\ kind = "discover"
          /\ \E r \in SeqsUpTo(SampleRows(DiscoverHeader), MaxRows) :
                csvInput = [header |-> DiscoverHeader, rows |-> r]
          /\ lines = <<>>
       \/ /\ kind = "delimited"
          /\ \E h \in SampleHeaders \ {DiscoverHeader} :
                \E r \in SeqsUpTo(SampleRows(h), MaxRows) :
                   csvInput = [header |-> h, rows |-> r]
          /\ lines = <<>>
       \/ /\ kind \in PdfStrategies
          /\ csvInput = NoCsv
          /\ lines \in SeqsUpTo(SegmenterLines, MaxLines)
    /\ pdfInput = NoPdf
    /\ parsed = <<>>
    /\ transactions = <<>>
    /\ errors = <<>>
    /\ invoked = <<>>
    /\ yields = <<>>
    /\ threw = FALSE
    /\ raw = ""
    /\ normalized = NoOutcome
    /\ StepsIdle

\* parseDiscoverCSV(csvContent)
ApplyDiscoverCSV ==
    /\ pc = "given"
    /\ kind = "discover"
    /\ ReturnCSV(csvInput, parseDiscoverCSV(csvInput))
    /\ pc' = "parsed"
    /\ UNCHANGED <<kind, pdfInput, lines, parsed, invoked, yields, threw>>
    /\ UNCHANGED normalizerVars
    /\ UNCHANGED stepVars

\* parseGenericCSV(csvContent)
ApplyGenericCSV ==
    /\ pc = "given"
    /\ kind = "delimited"
    /\ ReturnCSV(csvInput, parseGenericCSV(csvInput))
    /\ pc' = "parsed"
    /\ UNCHANGED <<kind, pdfInput, lines, parsed, invoked, yields, threw>>
    /\ UNCHANGED normalizerVars
    /\ UNCHANGED stepVars

\* parseChimeStatementTable(lines): it has no access to errors
ApplyTableStrategy ==
    /\ pc = "given"
    /\ kind = "table"
    /\ transactions' = parseChimeStatementTable(lines)
    /\ pc' = "parsed"
    /\ UNCHANGED <<kind, csvInput, pdfInput, lines, parsed, errors, invoked, yields, threw>>
    /\ UNCHANGED normalizerVars
    /\ UNCHANGED stepVars

\* parseChimeFormat(lines, errors): it never pushes to errors
ApplyNearbyStrategy ==
    /\ pc = "given"
    /\ kind = "nearby"
    /\ transactions' = parseChimeFormat(lines)
    /\ pc' = "parsed"
    /\ UNCHANGED <<kind, csvInput, pdfInput, lines, parsed, errors, invoked, yields, threw>>
    /\ UNCHANGED normalizerVars
    /\ UNCHANGED stepVars

\* parseGenericPDFFormat(lines, errors): it never pushes to errors
ApplyGenericStrategy ==
    /\ pc = "given"
    /\ kind = "generic"
    /\ transactions' = parseGenericPDFFormat(lines)
    /\ pc' = "parsed"
    /\ UNCHANGED <<kind, csvInput, pdfInput, lines, parsed, errors, invoked, yields, threw>>
    /\ UNCHANGED normalizerVars
    /\ UNCHANGED stepVars

ParserNext ==
    \/ ApplyDiscoverCSV
    \/ ApplyGenericCSV
    \/ ApplyTableStrategy
    \/ ApplyNearbyStrategy
    \/ ApplyGenericStrategy

ParserSpec == ParserInit /\ [][ParserNext]_vars

(***************************************************************************)
(* The two classifiers on their own: one transaction is given to the       *)
(* category auto-tagger or to the essential/flex scorer.                   *)
(***************************************************************************)
ClassifierInit ==
    /\ pc = "given"
    /\ \/ /\ kind = "categorize"
          /\ \E m \in SampleMerchants, a \in SampleAmounts :
                raw = [category |-> "", merchant_name |-> m, name |-> m, amount |-> a]
       \/ /\ kind = "classify"
          /\ \E c \in SampleCategories, m \in SampleMerchants, n \in SampleNames,
                a \in SampleAmounts :
                raw = [category |-> c, merchant_name |-> m, name |-> n, amount |-> a]
    /\ normalized = ""
    /\ PipelineIdle
    /\ StepsIdle

\* categorizeByMerchant(merchantName, amount), as the parsers call it
Categorize ==
    /\ pc = "given"
    /\ kind = "categorize"
    /\ normalized' = categorizeByMerchant(raw.merchant_name, raw.amount)
    /\ pc' = "classified"
    /\ UNCHANGED <<kind, raw>>
    /\ UNCHANGED pipelineVars
    /\ UNCHANGED stepVars

\* classifyTransaction(transaction)
Classify ==
    /\ pc = "given"
    /\ kind = "classify"
    /\ normalized' = classifyTransaction(raw)
    /\ pc' = "classified"
    /\ UNCHANGED <<kind, raw>>
    /\ UNCHANGED pipelineVars
    /\ UNCHANGED stepVars

ClassifierNext ==
    \/ Categorize
    \/ Classify

ClassifierSpec == ClassifierInit /\ [][ClassifierNext]_vars

(***************************************************************************)
(* The deduplicator on its own: a list of transactions is given to         *)
(* deduplicateTransactions, and what it returns is given to it again.      *)
(***************************************************************************)
DeduplicatorInit ==
    /\ pc = "given"
    /\ kind = "dedupe"
    /\ raw \in SeqsUpTo(SampleTransactions, MaxTransactions)
    /\ normalized = <<>>
    /\ PipelineIdle
    /\ StepsIdle

\* deduplicateTransactions(raw)
Deduplicate ==
    /\ pc = "given"
    /\ kind = "dedupe"
    /\ transactions' = deduplicateTransactions(raw)
    /\ pc' = "deduplicated"
    /\ UNCHANGED <<kind, csvInput, pdfInput, lines, parsed, errors, invoked, yields, threw>>
    /\ UNCHANGED normalizerVars
    /\ UNCHANGED stepVars

\* deduplicateTransactions given its own output
DeduplicateAgain ==
    /\ pc = "deduplicated"
    /\ normalized' = deduplicateTransactions(transactions)
    /\ pc' = "deduplicated again"
    /\ UNCHANGED <<kind, raw>>
    /\ UNCHANGED pipelineVars
    /\ UNCHANGED stepVars

DeduplicatorNext ==
    \/ Deduplicate
    \/ DeduplicateAgain

DeduplicatorSpec == DeduplicatorInit /\ [][DeduplicatorNext]_vars

(***************************************************************************)
(* The merchant cleaners on their own: one raw description is given to     *)
(* extractMerchantName of csv.ts and to cleanMerchantName of pdf.ts.       *)
(***************************************************************************)
CleanerInit ==
    /\ pc = "given"
    /\ kind = "merchant"
    /\ raw \in MerchantTexts
    /\ normalized = NoOutcome
    /\ PipelineIdle
    /\ StepsIdle

\* extractMerchantName(raw) of csv.ts and cleanMerchantName(raw) of pdf.ts
CleanMerchant ==
    /\ pc = "given"
    /\ kind = "merchant"
    /\ normalized' = [csv |-> extractMerchantName(raw), pdf |-> cleanMerchantName(raw)]
    /\ pc' = "cleaned"
    /\ UNCHANGED <<kind, raw>>
    /\ UNCHANGED pipelineVars
    /\ UNCHANGED stepVars

CleanerNext == CleanMerchant

CleanerSpec == CleanerInit /\ [][CleanerNext]_vars

(***************************************************************************)
(* The three segmentation strategies step by step: one action for each     *)
(* iteration of a loop.  cursor is the index of the code plus one.         *)
(***************************************************************************)
\* the longest statement given to a strategy taken step by step
MaxStatementLines == 3

\* reconstructed lines: they are trimmed and not empty (pdf.ts:440-443)
StatementLines ==
    { "01/15/2024 STARBUCKS",
      "Purchase -$4.50",
      "01/16/2024 COFFEE pending",
      "-$9.99",
      "01/18/2024 Deposit $5.00",
      "01/19/2024",
      "Page 2" }

\* what the patterns of the table strategy find in the line at cursor i, and
\* the transaction (none or one) of the row that the line opens
TableLine(ls, i) ==
    LET Found(rawLine, dateText, transactionDate) ==
            [rawLine |-> rawLine,
             dateText |-> dateText,
             date |-> transactionDate,
             skipped |-> rawLine = "" \/ IsBoilerplate(rawLine),
             txn |-> IF transactionDate = "" THEN <<>>
                     ELSE TableRow(FoldRow(ls, i + 1, <<rawLine>>).rowLines,
                                   dateText, transactionDate)]
        Line(rawLine) ==
            Found(rawLine, LeadingDate(rawLine), pdf_parseUSDate(LeadingDate(rawLine)))
    IN  Line(trim(ls[i]))

\* the outcome of the iteration of a strategy at each cursor.  It depends on
\* the statement and the cursor only, and the machine holds it tabulated from
\* the start; an iteration looks its outcome up.
Outcomes(strategy, ls) ==
    [i \in 1..Len(ls) |->
        IF strategy = "table" THEN TableLine(ls, i)
        ELSE IF strategy = "nearby" THEN NearbyIteration(ls, i)
        ELSE [txn |-> GenericLine(ls, i)]]

\* the strategy has been called and stands before the first iteration of its
\* loop: let index = headerIndex >= 0 ? headerIndex + 1 : 0, let i = 0
SegmenterInit ==
    /\ pc = "loop"
    /\ kind \in PdfStrategies
    /\ lines \in SeqsUpTo(StatementLines, MaxStatementLines)
    /\ outcomes = Outcomes(kind, lines)
    /\ cursor = (IF kind = "table" THEN FindHeader(lines, 1) ELSE 0) + 1
    /\ folding = NoRow
    /\ anchors = <<>>
    /\ csvInput = NoCsv
    /\ pdfInput = NoPdf
    /\ parsed = <<>>
    /\ transactions = <<>>
    /\ errors = <<>>
    /\ invoked = <<>>
    /\ yields = <<>>
    /\ threw = FALSE
    /\ raw = ""
    /\ normalized = NoOutcome
    /\ LayoutIdle
    /\ ServerIdle
    /\ HookIdle

\* an iteration of the outer loop of parseChimeStatementTable up to its inner
\* loop: a line without a date that parses is skipped, another one opens a row
TableIteration ==
    /\ pc = "loop"
    /\ kind = "table"
    /\ cursor <= Len(lines)
    /\ IF outcomes[cursor].dateText = "" \/ outcomes[cursor].date = ""
       THEN /\ cursor' = NextLine(cursor)
            /\ UNCHANGED <<pc, folding>>
       ELSE /\ folding' = [start |-> cursor, rowLines |-> <<outcomes[cursor].rawLine>>]
            /\ cursor' = NextLine(cursor)
            /\ pc' = "fold"
    /\ UNCHANGED <<kind, outcomes, anchors>>
    /\ UNCHANGED pipelineVars
    /\ UNCHANGED normalizerVars
    /\ UNCHANGED layoutVars
    /\ UNCHANGED serverVars
    /\ UNCHANGED hookVars

\* an iteration of the inner loop that does not leave it: an empty or a
\* boilerplate line is skipped, another line is added to the row
FoldIteration ==
    /\ pc = "fold"
    /\ cursor <= Len(lines)
    /\ outcomes[cursor].skipped \/ outcomes[cursor].dateText = ""
    /\ folding' = IF outcomes[cursor].skipped THEN folding
                  ELSE [folding EXCEPT !.rowLines = Append(@, outcomes[cursor].rawLine)]
    /\ cursor' = NextLine(cursor)
    /\ UNCHANGED <<pc, kind, outcomes, anchors>>
    /\ UNCHANGED pipelineVars
    /\ UNCHANGED normalizerVars
    /\ UNCHANGED layoutVars
    /\ UNCHANGED serverVars
    /\ UNCHANGED hookVars

\* the inner loop is left, at the end of the lines or at a line that starts
\* with a date, and the outer iteration ends: the row gives a transaction or
\* none
FinishRow ==
    /\ pc = "fold"
    /\ \/ cursor > Len(lines)
       \/ /\ cursor <= Len(lines)
          /\ ~outcomes[cursor].skipped
          /\ outcomes[cursor].dateText # ""
    /\ transactions' = transactions \o outcomes[folding.start].txn
    /\ folding' = NoRow
    /\ pc' = "loop"
    /\ UNCHANGED <<kind, outcomes, cursor, anchors>>
    /\ UNCHANGED <<csvInput, pdfInput, lines, parsed, errors, invoked, yields, threw>>
    /\ UNCHANGED normalizerVars
    /\ UNCHANGED layoutVars
    /\ UNCHANGED serverVars
    /\ UNCHANGED hookVars

\* an iteration of the while loop of parseChimeFormat
NearbyStep ==
    /\ pc = "loop"
    /\ kind = "nearby"
    /\ cursor <= Len(lines)
    /\ transactions' = transactions \o outcomes[cursor].txn
    /\ anchors' = IF outcomes[cursor].emits
                  THEN Append(anchors, [date |-> cursor,
                                        type |-> outcomes[cursor].type,
                                        amount |-> outcomes[cursor].amount,
                                        next |-> outcomes[cursor].next])
                  ELSE anchors
    /\ cursor' = outcomes[cursor].next
    /\ UNCHANGED <<pc, kind, outcomes, folding>>
    /\ UNCHANGED <<csvInput, pdfInput, lines, parsed, errors, invoked, yields, threw>>
    /\ UNCHANGED normalizerVars
    /\ UNCHANGED layoutVars
    /\ UNCHANGED serverVars
    /\ UNCHANGED hookVars

\* an iteration of the for loop of parseGenericPDFFormat
GenericStep ==
    /\ pc = "loop"
    /\ kind = "generic"
    /\ cursor <= Len(lines)
    /\ transactions' = transactions \o outcomes[cursor].txn
    /\ cursor' = NextLine(cursor)
    /\ UNCHANGED <<pc, kind, outcomes, folding, anchors>>
    /\ UNCHANGED <<csvInput, pdfInput, lines, parsed, errors, invoked, yields, threw>>
    /\ UNCHANGED normalizerVars
    /\ UNCHANGED layoutVars
    /\ UNCHANGED serverVars
    /\ UNCHANGED hookVars

\* the loop condition fails: return transactions
ReturnTransactions ==
    /\ pc = "loop"
    /\ cursor > Len(lines)
    /\ pc' = "returned"
    /\ UNCHANGED <<kind, outcomes, cursor, folding, anchors>>
    /\ UNCHANGED pipelineVars
    /\ UNCHANGED normalizerVars
    /\ UNCHANGED layoutVars
    /\ UNCHANGED serverVars
    /\ UNCHANGED hookVars

SegmenterNext ==
    \/ TableIteration
    \/ FoldIteration
    \/ FinishRow
    \/ NearbyStep
    \/ GenericStep
    \/ ReturnTransactions

SegmenterSpec == SegmenterInit /\ [][SegmenterNext]_vars

\* the code runs on: a strategy that can take a step takes it
SegmenterFairSpec == SegmenterSpec /\ WF_vars(SegmenterNext)

(***************************************************************************)
(* The layout reconstructor of pdf.ts, one page at a time.  A text of a    *)
(* page is [x, y, text]: its position in hundredths of a unit and the      *)
(* content decoded from its runs.                                          *)
(***************************************************************************)
\* yTolerance = 0.5, in hundredths
yTolerance == 50

\* a space is put between elements more than 1 apart, in hundredths
GapWidth == 100

\* the approximate width of a character, 0.15, in hundredths
CharWidth == 15

\* the text elements of a page: the texts with content
TextElementsOf(texts) == SelectSeq(texts, LAMBDA t : t.text # "")

RECURSIVE FindGroup(_, _, _)
\* the first line group, in the order of the Map, whose key is within the
\* tolerance of y; 0 when there is none
FindGroup(groups, y, k) ==
    IF k > Len(groups) THEN 0
    ELSE IF AbsInt(y - groups[k].y) < yTolerance THEN k
    ELSE FindGroup(groups, y, k + 1)

RECURSIVE GroupByY(_, _, _)
\* the line groups after the elements from the k-th on are placed: a group is
\* [y, elems], its key and the indexes of its elements in the order they came
GroupByY(elems, k, groups) ==
    LET Place(found) ==
            IF found # 0 THEN [groups EXCEPT ![found].elems = Append(@, k)]
            ELSE Append(groups, [y |-> elems[k].y, elems |-> <<k>>])
    IN  IF k > Len(elems) THEN groups
        ELSE GroupByY(elems, k + 1, Place(FindGroup(groups, elems[k].y, 1)))

\* the groups sorted by key: Array.from(lineGroups.keys()).sort((a, b) => a - b)
SortedGroups(groups) ==
    [p \in 1..Len(groups) |->
        groups[CHOOSE g \in 1..Len(groups) :
                  Cardinality({h \in 1..Len(groups) : groups[h].y < groups[g].y}) = p - 1]]

\* lineElements.sort((a, b) => a.x - b.x): a stable sort
SortedByX(elems, group) ==
    [p \in 1..Len(group) |->
        group[CHOOSE i \in 1..Len(group) :
                 Cardinality({j \in 1..Len(group) :
                                 \/ elems[group[j]].x < elems[group[i]].x
                                 \/ elems[group[j]].x = elems[group[i]].x /\ j < i}) = p - 1]]

RECURSIVE LineText(_, _, _, _, _)
\* the text of a line from its k-th element on
LineText(elems, group, k, lastX, lineText) ==
    IF k > Len(group) THEN lineText
    ELSE LineText(elems, group, k + 1,
                  elems[group[k]].x + Len(elems[group[k]].text) * CharWidth,
                  lineText
                     \o (IF lastX >= 0 /\ elems[group[k]].x - lastX > GapWidth THEN " " ELSE "")
                     \o elems[group[k]].text)

\* the lines of a page: the trimmed texts of its groups that are not empty
PageLines(elems, groups) ==
    SelectSeq([g \in 1..Len(groups) |->
                  trim(LineText(elems, SortedByX(elems, groups[g].elems), 1, -1, ""))],
              LAMBDA t : t # "")

\* the most pages and the most texts of a page given to the reconstructor
MaxPages == 2

MaxTexts == 3

SampleTexts ==
    { [x |-> 0, y |-> 1000, text |-> "01/15/2024"],
      [x |-> 600, y |-> 1040, text |-> "STARBUCKS"],
      [x |-> 735, y |-> 1080, text |-> "-$4.50"],
      [x |-> 0, y |-> 1080, text |-> ""] }

LayoutInit ==
    /\ pc = "decoded"
    /\ kind = "pdf"
    /\ pages \in SeqsUpTo(SeqsUpTo(SampleTexts, MaxTexts), MaxPages)
    /\ pageNo = 1
    /\ textElements = <<>>
    /\ lineGroups = <<>>
    /\ PipelineIdle
    /\ SegmenterIdle
    /\ ServerIdle
    /\ HookIdle
    /\ raw = ""
    /\ normalized = NoOutcome

\* one iteration of for (const page of pdfData.Pages)
ReconstructPage ==
    /\ pc = "decoded"
    /\ pageNo <= Len(pages)
    /\ textElements' = TextElementsOf(pages[pageNo])
    /\ lineGroups' = GroupByY(textElements', 1, <<>>)
    /\ lines' = lines \o PageLines(textElements', SortedGroups(lineGroups'))
    /\ pageNo' = pageNo + 1
    /\ UNCHANGED <<pc, kind, pages>>
    /\ UNCHANGED <<csvInput, pdfInput, parsed, transactions, errors, invoked, yields, threw>>
    /\ UNCHANGED normalizerVars
    /\ UNCHANGED segmenterVars
    /\ UNCHANGED serverVars
    /\ UNCHANGED hookVars

\* resolve(allLines)
ResolveLines ==
    /\ pc = "decoded"
    /\ pageNo > Len(pages)
    /\ pc' = "resolved"
    /\ UNCHANGED <<kind, pages, pageNo, textElements, lineGroups>>
    /\ UNCHANGED pipelineVars
    /\ UNCHANGED normalizerVars
    /\ UNCHANGED segmenterVars
    /\ UNCHANGED serverVars
    /\ UNCHANGED hookVars

LayoutNext ==
    \/ ReconstructPage
    \/ ResolveLines

LayoutSpec == LayoutInit /\ [][LayoutNext]_vars

(***************************************************************************)
(* The import route (POST) and the transaction route (DELETE) of one       *)
(* signed-in user with a valid bank account.  A handler runs in steps:     *)
(* one action for each call of the database it awaits, together with the   *)
(* code up to the next call; the steps of the requests in progress         *)
(* interleave.  An insert may fail.  A row of imports is                   *)
(* [id, file_hash, transaction_count]; a row of transactions is            *)
(* [id, import_id, by], import_id 0 standing for NULL and by, a history    *)
(* field, naming the request that inserted it.                             *)
(***************************************************************************)
BATCH_SIZE == 100

\* the most requests served
MaxRequests == 3

Requests == 1..MaxRequests

\* uploaded files: the hash of the bytes and how many transactions the parser
\* finds in them
SampleFiles ==
    { [hash |-> "2c26", count |-> 2],
      [hash |-> "fcde", count |-> BATCH_SIZE + 1],
      [hash |-> "e3b0", count |-> 0] }

\* the transactions a client asks to delete
SampleTransactionIds == {2, 3}

NoFile == [hash |-> "", count |-> 0]

\* a handler that has not been called
NoRequest ==
    [op |-> "none", pc |-> "idle", file |-> NoFile, transactionId |-> 0, existing |-> 0,
     importRecord |-> 0, i |-> 0, currentImport |-> -1, status |-> 0]

\* .single(): the data are the row when exactly one row is selected, else null;
\* the data are modelled as the set of that row, null as the empty set
Single(rows) == IF Cardinality(rows) = 1 THEN rows ELSE {}

\* the row that the data are
RowOf(data) == CHOOSE row \in data : TRUE

\* .from('imports').select(...).eq('file_hash', fileHash).single()
ExistingImport(fileHash) == Single({m \in imports : m.file_hash = fileHash})

\* .from('imports').select(...).eq('id', id).single()
ImportById(id) == Single({m \in imports : m.id = id})

\* .from('transactions').select(...).eq('id', id).single()
TransactionById(id) == Single({t \in storedRows : t.id = id})

\* the rows of a batch: transactionsToInsert.slice(i, i + BATCH_SIZE), with
\* the identifiers the database gives them
BatchRows(r, importId, i, count) ==
    {[id |-> nextId + k, import_id |-> importId, by |-> r] :
        k \in 0..(Min(i + BATCH_SIZE, count) - i - 1)}

\* .from('imports').delete().eq('id', id)
DeleteImport(id) == {m \in imports : m.id # id}

\* transactions.import_id REFERENCES imports(id) ON DELETE SET NULL
SetNullOnDelete(id) ==
    {IF t.import_id = id THEN [t EXCEPT !.import_id = 0] ELSE t : t \in storedRows}

ServerInit ==
    /\ pc = "serving"
    /\ kind = "api"
    /\ imports = {}
    /\ storedRows = {}
    /\ requests = [r \in Requests |-> NoRequest]
    /\ nextId = 1
    /\ PipelineIdle
    /\ SegmenterIdle
    /\ LayoutIdle
    /\ HookIdle
    /\ raw = ""
    /\ normalized = NoOutcome

\* everything but the tables and the requests
ServerFrame ==
    /\ UNCHANGED <<pc, kind>>
    /\ UNCHANGED pipelineVars
    /\ UNCHANGED normalizerVars
    /\ UNCHANGED segmenterVars
    /\ UNCHANGED layoutVars
    /\ UNCHANGED hookVars

\* the handler of request r returns the response
Respond(r, status) ==
    requests' = [requests EXCEPT ![r].pc = "done", ![r].status = status]

\* a POST of a file arrives; requests are numbered in the order they arrive
ReceivePost(r) ==
    /\ requests[r].pc = "idle"
    /\ r > 1 => requests[r - 1].pc # "idle"
    /\ \E file \in SampleFiles :
          requests' = [requests EXCEPT ![r].op = "POST", ![r].pc = "lookup",
                                       ![r].file = file]
    /\ UNCHANGED <<imports, storedRows, nextId>>
    /\ ServerFrame

\* the lookup of the file hash; then 409, or the parse and 400, or on to the
\* insert of the import record
LookupHash(r) ==
    /\ requests[r].pc = "lookup"
    /\ IF ExistingImport(requests[r].file.hash) # {} THEN Respond(r, 409)
       ELSE IF requests[r].file.count = 0 THEN Respond(r, 400)
       ELSE requests' = [requests EXCEPT ![r].pc = "insert"]
    /\ UNCHANGED <<imports, storedRows, nextId>>
    /\ ServerFrame

\* the insert of the import record, which may fail
InsertImport(r) ==
    /\ requests[r].pc = "insert"
    /\ \/ /\ imports' = imports \cup
                {[id |-> nextId, file_hash |-> requests[r].file.hash,
                  transaction_count |-> requests[r].file.count]}
          /\ nextId' = nextId + 1
          /\ requests' = [requests EXCEPT ![r].pc = "batch", ![r].importRecord = nextId,
                                          ![r].i = 0]
       \/ /\ Respond(r, 500)
          /\ UNCHANGED <<imports, nextId>>
    /\ UNCHANGED storedRows
    /\ ServerFrame

\* the insert of one batch, which may fail; after the last batch the response
InsertBatch(r) ==
    /\ requests[r].pc = "batch"
    /\ \/ /\ storedRows' = storedRows \cup
                BatchRows(r, requests[r].importRecord, requests[r].i, requests[r].file.count)
          /\ nextId' = nextId + Min(BATCH_SIZE, requests[r].file.count - requests[r].i)
          /\ IF requests[r].i + BATCH_SIZE < requests[r].file.count
             THEN requests' = [requests EXCEPT ![r].i = @ + BATCH_SIZE]
             ELSE Respond(r, 200)
       \/ /\ requests' = [requests EXCEPT ![r].pc = "rollback"]
          /\ UNCHANGED <<storedRows, nextId>>
    /\ UNCHANGED imports
    /\ ServerFrame

\* the rollback after a failed batch: the import record is deleted; then 500
Rollback(r) ==
    /\ requests[r].pc = "rollback"
    /\ imports' = DeleteImport(requests[r].importRecord)
    /\ storedRows' = IF imports' # imports THEN SetNullOnDelete(requests[r].importRecord)
                     ELSE storedRows
    /\ Respond(r, 500)
    /\ UNCHANGED nextId
    /\ ServerFrame

\* a DELETE of a transaction arrives
ReceiveDelete(r) ==
    /\ requests[r].pc = "idle"
    /\ r > 1 => requests[r - 1].pc # "idle"
    /\ \E id \in SampleTransactionIds :
          requests' = [requests EXCEPT ![r].op = "DELETE", ![r].pc = "fetch",
                                       ![r].transactionId = id]
    /\ UNCHANGED <<imports, storedRows, nextId>>
    /\ ServerFrame

\* the select of the transaction; 404 when it is not there
FetchTransaction(r) ==
    /\ requests[r].pc = "fetch"
    /\ IF TransactionById(requests[r].transactionId) = {} THEN Respond(r, 404)
       ELSE requests' = [requests EXCEPT
                            ![r].pc = "delete",
                            ![r].existing = RowOf(TransactionById(requests[r].transactionId)).import_id]
    /\ UNCHANGED <<imports, storedRows, nextId>>
    /\ ServerFrame

\* the delete of the transaction; then on to the import's count, or the
\* response for a transaction of no import
DeleteTransaction(r) ==
    /\ requests[r].pc = "delete"
    /\ storedRows' = {t \in storedRows : t.id # requests[r].transactionId}
    /\ IF requests[r].existing # 0
       THEN requests' = [requests EXCEPT ![r].pc = "read"]
       ELSE Respond(r, 200)
    /\ UNCHANGED <<imports, nextId>>
    /\ ServerFrame

\* the select of the import's transaction_count; then on to the update, or the
\* response when there is no import or its count is 0
ReadCount(r) ==
    LET Read(currentImport) ==
            IF currentImport # {} /\ RowOf(currentImport).transaction_count > 0
            THEN requests' = [requests EXCEPT
                                 ![r].pc = "write",
                                 ![r].currentImport = RowOf(currentImport).transaction_count]
            ELSE Respond(r, 200)
    IN  /\ requests[r].pc = "read"
        /\ Read(ImportById(requests[r].existing))
        /\ UNCHANGED <<imports, storedRows, nextId>>
        /\ ServerFrame

\* update({ transaction_count: currentImport.transaction_count - 1 })
WriteCount(r) ==
    /\ requests[r].pc = "write"
    /\ imports' = {IF m.id = requests[r].existing
                   THEN [m EXCEPT !.transaction_count = requests[r].currentImport - 1]
                   ELSE m : m \in imports}
    /\ Respond(r, 200)
    /\ UNCHANGED <<storedRows, nextId>>
    /\ ServerFrame

ServerNext ==
    \E r \in Requests :
        \/ ReceivePost(r)
        \/ LookupHash(r)
        \/ InsertImport(r)
        \/ InsertBatch(r)
        \/ Rollback(r)
        \/ ReceiveDelete(r)
        \/ FetchTransaction(r)
        \/ DeleteTransaction(r)
        \/ ReadCount(r)
        \/ WriteCount(r)

ServerSpec == ServerInit /\ [][ServerNext]_vars

(***************************************************************************)
(* The data hooks useCashFlowHistory and useSpendMix, which differ in the  *)
(* endpoint and the storage prefix only.  hook holds the state of the hook *)
(* (range, data, loading, error), its option enabled, and abortRef as the  *)
(* index in fetches of the request whose controller it holds (0 for null). *)
(* A request is [range, aborted, settled]; a payload is [range, of], of    *)
(* being the index of the request that brought it (0 for a payload found   *)
(* in the storage at the start); no error is "".                           *)
(***************************************************************************)
RangeOptions == {"3m", "6m", "12m"}

\* null where a payload may stand
NoPayload == [range |-> "", of |-> 0]

\* the most network requests a hook starts
MaxFetches == 3

\* readCache(range, ttl): the stored payload, a stale one having been dropped
\* by CacheGoesStale
readCache(range) == localStorage[range]

\* if (abortRef.current) abortRef.current.abort(): a settled request is left
\* as it is
Aborted(reqs, k) ==
    IF k # 0 /\ ~reqs[k].settled THEN [reqs EXCEPT ![k].aborted = TRUE] ELSE reqs

\* err.name === 'AbortError' in the catch block
IsAbortError(request) == request.aborted

\* the hook after fetchData(selectedRange, { bypassCache }) has run up to its
\* first await, and the requests after it
fetchData(h, reqs, selectedRange, bypassCache) ==
    IF ~h.enabled THEN [hook |-> h, fetches |-> reqs]
    ELSE IF ~bypassCache /\ readCache(selectedRange) # NoPayload
    THEN [hook |-> [h EXCEPT !.data = readCache(selectedRange), !.loading = FALSE, !.error = ""],
          fetches |-> reqs]
    ELSE [hook |-> [h EXCEPT !.abortRef = Len(reqs) + 1, !.loading = TRUE, !.error = ""],
          fetches |-> Append(Aborted(reqs, h.abortRef),
                             [range |-> selectedRange, aborted |-> FALSE, settled |-> FALSE])]

\* the body of the effect
Effect(h, reqs) ==
    IF ~h.enabled THEN [hook |-> [h EXCEPT !.loading = FALSE], fetches |-> reqs]
    ELSE fetchData(h, reqs, h.range, FALSE)

\* the cleanup the effect returned, if it returned one
Cleanup(h, reqs) == IF h.enabled THEN Aborted(reqs, h.abortRef) ELSE reqs

HookInit ==
    /\ pc = "mounted"
    /\ kind \in {"useCashFlowHistory", "useSpendMix"}
    /\ localStorage \in [RangeOptions -> {NoPayload}]
                            \cup {[r \in RangeOptions |->
                                      IF r = c THEN [range |-> c, of |-> 0] ELSE NoPayload] :
                                    c \in RangeOptions}
    /\ \E initialRange \in RangeOptions, enabled \in BOOLEAN :
          hook = [range |-> initialRange, data |-> localStorage[initialRange],
                  loading |-> (localStorage[initialRange] = NoPayload), error |-> "",
                  abortRef |-> 0, enabled |-> enabled]
    /\ fetches = <<>>
    /\ PipelineIdle
    /\ SegmenterIdle
    /\ LayoutIdle
    /\ ServerIdle
    /\ raw = ""
    /\ normalized = NoOutcome

\* everything but the hook, its requests and the storage
HookFrame ==
    /\ UNCHANGED kind
    /\ UNCHANGED pipelineVars
    /\ UNCHANGED normalizerVars
    /\ UNCHANGED segmenterVars
    /\ UNCHANGED layoutVars
    /\ UNCHANGED serverVars

\* the hook and the requests become what a call has left
Becomes(after) ==
    /\ hook' = after.hook
    /\ fetches' = after.fetches

\* the effect runs after the first render
RunEffect ==
    /\ pc = "mounted"
    /\ pc' = "rendered"
    /\ Becomes(Effect(hook, fetches))
    /\ UNCHANGED localStorage
    /\ HookFrame

\* setRange(r) with another range: the render, the cleanup of the effect,
\* the effect
ChangeRange ==
    /\ pc = "rendered"
    /\ Len(fetches) < MaxFetches
    /\ \E r \in RangeOptions \ {hook.range} :
          Becomes(Effect([hook EXCEPT !.range = r], Cleanup(hook, fetches)))
    /\ UNCHANGED <<pc, localStorage>>
    /\ HookFrame

\* refresh()
Refresh ==
    /\ pc = "rendered"
    /\ Len(fetches) < MaxFetches
    /\ Becomes(fetchData(hook, fetches, hook.range, TRUE))
    /\ UNCHANGED <<pc, localStorage>>
    /\ HookFrame

\* the response of request k arrives and is ok: the try block to its end,
\* then the finally block
ResponseArrives ==
    /\ \E k \in DOMAIN fetches :
          /\ ~fetches[k].settled
          /\ ~fetches[k].aborted
          /\ hook' = [hook EXCEPT !.data = [range |-> fetches[k].range, of |-> k],
                                  !.loading = FALSE]
          /\ localStorage' = [localStorage EXCEPT
                                 ![fetches[k].range] = [range |-> fetches[k].range, of |-> k]]
          /\ fetches' = [fetches EXCEPT ![k].settled = TRUE]
    /\ UNCHANGED pc
    /\ HookFrame

\* the fetch of request k rejects: the catch block, then the finally block
FetchRejects ==
    /\ \E k \in DOMAIN fetches :
          /\ ~fetches[k].settled
          /\ hook' = IF IsAbortError(fetches[k]) THEN [hook EXCEPT !.loading = FALSE]
                     ELSE [hook EXCEPT !.error = "Failed to load", !.loading = FALSE]
          /\ fetches' = [fetches EXCEPT ![k].settled = TRUE]
    /\ UNCHANGED <<pc, localStorage>>
    /\ HookFrame

\* time passes and the stored payload of a range is older than the ttl
CacheGoesStale ==
    /\ pc = "rendered"
    /\ \E r \in RangeOptions :
          /\ localStorage[r] # NoPayload
          /\ localStorage' = [localStorage EXCEPT ![r] = NoPayload]
    /\ UNCHANGED <<pc, hook, fetches>>
    /\ HookFrame

HookNext ==
    \/ RunEffect
    \/ ChangeRange
    \/ Refresh
    \/ ResponseArrives
    \/ FetchRejects
    \/ CacheGoesStale

HookSpec == HookInit /\ [][HookNext]_vars

(***************************************************************************)
(* Properties of the pipeline (under Spec).                                *)
(***************************************************************************)
\* the number written in a cell, its thousands separators read as grouping
WrittenAmount(cell) == parseFloat(RemoveChars(trim(cell), {","}, 1))

\* whether the date and the Amount of a Discover row parse
DiscoverRowParses(keys, row) ==
    /\ csv_parseUSDate(Cell(keys, row, "Trans. Date")) # ""
    /\ ~isNaN(WrittenAmount(Cell(keys, row, "Amount")))

RECURSIVE NegatedWrittenAmounts(_, _, _)
\* the negated written amounts of the rows from k on whose date and Amount parse
NegatedWrittenAmounts(keys, rows, k) ==
    IF k > Len(rows) THEN <<>>
    ELSE (IF DiscoverRowParses(keys, rows[k])
          THEN <<Negate(WrittenAmount(Cell(keys, rows[k], "Amount")))>>
          ELSE <<>>)
         \o NegatedWrittenAmounts(keys, rows, k + 1)

AmountsOf(txns) == [k \in 1..Len(txns) |-> txns[k].amount]

\* C1: for a Discover-layout file, the amounts parseCSV returns are, row by
\* row, the exact negations of the numbers written in the Amount cells of the
\* rows whose date and Amount parse.
DiscoverNegatesWrittenAmount ==
    (pc = "returned" /\ kind = "csv" /\ IsDiscoverLayout(csvInput))
        => AmountsOf(transactions)
             = NegatedWrittenAmounts(DiscoverKeys(csvInput.header), csvInput.rows, 1)

\* C2: whenever parseCSV or parsePDF returns no transactions it returns at
\* least one error.
EmptyResultHasErrors ==
    (pc = "returned" /\ transactions = <<>>) => errors # <<>>

\* C3: when the try block of parsePDF is left by an exception, parsePDF still
\* returns, with no transactions and exactly one error.
ExceptionGivesOneError ==
    (pc = "returned" /\ threw) => (transactions = <<>> /\ Len(errors) = 1)

\* parsePDF has returned after the line extraction rejected a malformed buffer
ExceptionWasCaught ==
    pc = "returned" /\ kind = "pdf" /\ pdfInput.malformed /\ threw

StrategyOrder == <<"table", "nearby", "generic">>

\* C4: the strategies parsePDF has called are the first ones of the order
\* table-header, nearby-window, generic, and each one after the first was
\* called only after the one before it returned no transaction.
StrategiesInOrder ==
    /\ Len(invoked) <= Len(StrategyOrder)
    /\ Len(yields) = Len(invoked)
    /\ invoked = SubSeq(StrategyOrder, 1, Len(invoked))
    /\ \A k \in 2..Len(invoked) : yields[k - 1] = 0

\* parsePDF has returned what the table-header strategy found, having called
\* no other strategy
TableStrategySufficed ==
    /\ pc = "returned"
    /\ invoked = <<"table">>
    /\ yields[1] >= 1
    /\ Len(transactions) = yields[1]

SameKey(a, b) ==
    a.date = b.date /\ a.amount = b.amount /\ a.merchant_name = b.merchant_name

\* C5: the list parsePDF returns holds no two transactions with the same
\* date, amount and merchant_name.
PdfResultHasNoDuplicates ==
    (pc = "returned" /\ kind = "pdf")
        => \A i, j \in 1..Len(transactions) :
              i # j => ~SameKey(transactions[i], transactions[j])

IsLeapYear(y) == (y % 4 = 0 /\ y % 100 # 0) \/ y % 400 = 0

DaysIn(y, m) ==
    IF m = 2 THEN (IF IsLeapYear(y) THEN 29 ELSE 28)
    ELSE IF m \in {4, 6, 9, 11} THEN 30
    ELSE 31

\* whether d is YYYY-MM-DD and names a day of the calendar
IsCalendarDate(d) ==
    /\ IsISODateText(d)
    /\ NatOf(d, 6, 7) \in 1..12
    /\ NatOf(d, 9, 10) \in 1..DaysIn(NatOf(d, 1, 4), NatOf(d, 6, 7))

\* C6: every transaction of a result, of the delimited parser or of a PDF
\* strategy, is dated with a YYYY-MM-DD string that names a real calendar day
\* (so a row dated 13/01/2024 is dropped).
EmittedDatesAreCalendarDates ==
    \A k \in 1..Len(transactions) : IsCalendarDate(transactions[k].date)

\* whether the line holds a fully parenthesized amount token
HasParenthesizedAmount(line) ==
    \E i \in 1..Len(line) :
        /\ CharAt(line, i) = "("
        /\ DecimalAt(line, i + 1) > 0
        /\ CharAt(line, i + 1 + DecimalAt(line, i + 1)) = ")"

\* whether the line holds an amount token followed by the credit marker
HasCreditAmount(line) ==
    \E i \in 1..Len(line) :
        /\ AmountAt(line, i) > 0
        /\ \/ OccursAt(line, "CR", i + AmountAt(line, i))
           \/ OccursAt(line, " CR", i + AmountAt(line, i))

\* what each of the three strategies makes of one line
StrategyResults(line) ==
    { parseChimeStatementTable(<<line>>), parseChimeFormat(<<line>>),
      parseGenericPDFFormat(<<line>>) }

\* C10: whichever strategy extracts it, the amount of a line whose token is
\* fully parenthesized is negative and the amount of a line whose token is
\* followed by CR is positive.
StrategiesAgreeOnSign ==
    \A k \in 1..Len(lines) :
        \A r \in StrategyResults(lines[k]) :
            \A j \in 1..Len(r) :
                /\ HasParenthesizedAmount(lines[k]) => r[j].amount.cents < 0
                /\ HasCreditAmount(lines[k]) => r[j].amount.cents > 0

(***************************************************************************)
(* Properties of the normalizers (under NormalizerSpec).                   *)
(***************************************************************************)
\* whether text is M/D/YY, month and day of the calendar, year of two digits
IsShortYearDate(text) ==
    LET m == DateAt(text, 1, SlashOnly, 2, TRUE)
    IN  /\ m.len > 0
        /\ m.len = Len(text)
        /\ Len(m.year) = 2
        /\ NatOf(m.month, 1, Len(m.month)) \in 1..12
        /\ NatOf(m.day, 1, Len(m.day)) \in 1..31

\* the ISO date of an M/D/YY text: 20YY when YY < 51, 19YY otherwise
PivotDate(text) ==
    LET m  == DateAt(text, 1, SlashOnly, 2, TRUE)
        yy == NatOf(m.year, 1, Len(m.year))
    IN  NatToString(IF yy < 51 THEN 2000 + yy ELSE 1900 + yy)
        \o "-" \o padStart2(m.month) \o "-" \o padStart2(m.day)

\* C7: the date normalizer of the delimited parser and that of the PDF
\* segmenter both turn an M/D/YY date into the zero-padded ISO date of the
\* year 2000+YY when YY < 51 and 1900+YY otherwise.
BothAcceptShortYear ==
    (pc = "normalized" /\ kind = "date" /\ IsShortYearDate(raw))
        => (normalized.csv = PivotDate(raw) /\ normalized.pdf = PivotDate(raw))

\* the magnitude written in an amount string, in hundredths
MagnitudeCents(text) ==
    parseFloat(RemoveChars(text, {"$", ",", "(", ")", "-", " ", "C", "R"}, 1)).cents

HasCreditMarker(text) == endsWith(text, "CR")

\* C8: parseAmount and parseChimeAmount both give an amount string that ends
\* with CR its magnitude, positive, whatever other sign markers it carries.
CreditMarkerForcesPositive ==
    (pc = "normalized" /\ kind = "amount" /\ HasCreditMarker(raw))
        => /\ normalized.csv = Num(MagnitudeCents(raw))
           /\ normalized.pdf = Num(MagnitudeCents(raw))

\* whether text, without a CR marker, is fully parenthesized or ends with '-'
IsWrittenNegative(text) ==
    /\ ~HasCreditMarker(text)
    /\ \/ startsWith(text, "(") /\ endsWith(text, ")")
       \/ endsWith(text, "-")

\* C9: parseAmount and parseChimeAmount both give a string without CR that is
\* fully parenthesized, or that ends with '-', the negative of its magnitude.
WrittenNegativeIsNegative ==
    (pc = "normalized" /\ kind = "amount" /\ IsWrittenNegative(raw))
        => /\ normalized.csv = Num(-MagnitudeCents(raw))
           /\ normalized.pdf = Num(-MagnitudeCents(raw))

(***************************************************************************)
(* Properties of the parser functions (under ParserSpec).                  *)
(***************************************************************************)
\* the keys Papa.parse gives the rows of the file
ParsedKeys ==
    IF kind = "discover" THEN DiscoverKeys(csvInput.header) ELSE GenericKeys(csvInput.header)

\* the column of the file that `names` selects, "" when none
SelectedColumn(names) == FindColumn(FirstRowKeys(ParsedKeys, csvInput.rows), names, 1)

\* the column the parser reads the date of a row from
DateColumnRead == IF kind = "discover" THEN "Trans. Date" ELSE SelectedColumn(DateColumns)

\* whether the parser gets as far as its row loop
RowsAreRead ==
    \/ kind = "discover"
    \/ /\ SelectedColumn(DateColumns) # ""
       /\ SelectedColumn(DescColumns) # ""
       /\ \/ SelectedColumn(AmountColumns) # ""
          \/ SelectedColumn(DebitColumns) # ""
          \/ SelectedColumn(CreditColumns) # ""

\* the rows that carry a date cell: the candidate rows of a delimited file
CandidateRows ==
    {k \in 1..Len(csvInput.rows) :
        RowsAreRead /\ Cell(ParsedKeys, csvInput.rows[k], DateColumnRead) # ""}

\* the amount the parser reads from a row
AmountRead(row) ==
    IF kind = "discover" THEN parseFloat(Cell(ParsedKeys, row, "Amount"))
    ELSE RowAmount(ParsedKeys, row, SelectedColumn(AmountColumns),
                   SelectedColumn(DebitColumns), SelectedColumn(CreditColumns))

\* the candidate rows whose date or amount cannot be parsed
UnparseableRows ==
    {k \in CandidateRows :
        \/ csv_parseUSDate(Cell(ParsedKeys, csvInput.rows[k], DateColumnRead)) = ""
        \/ isNaN(AmountRead(csvInput.rows[k]))}

\* the errors that are not about one dropped row: those of Papa.parse and the
\* one of a missing column
FormatErrors ==
    Len(PapaErrors(csvInput.header, csvInput.rows, 1)) + (IF RowsAreRead THEN 0 ELSE 1)

\* the date-anchored lines of a statement for which no amount token can be
\* found, in the line or in any line after it
UnparseableLines ==
    {k \in 1..Len(lines) :
        /\ LeadingDate(trim(lines[k])) # ""
        /\ \A j \in k..Len(lines) : findFirstAmount(lines[j]) = ""}

\* C11: each candidate row whose date or amount cannot be parsed adds exactly
\* one warning to errors, and the other candidate rows are still emitted: in
\* both delimited layouts and in each PDF segmentation strategy.
DroppedRowGetsOneWarning ==
    pc = "parsed"
        => IF kind \in CsvParsers
           THEN /\ Len(errors) = FormatErrors + Cardinality(UnparseableRows)
                /\ Len(transactions) = Cardinality(CandidateRows \ UnparseableRows)
           ELSE Len(errors) = Cardinality(UnparseableLines)

\* the merchant cleaner the parser applies to a raw description
CleanerResult(description) ==
    IF kind \in CsvParsers THEN extractMerchantName(description)
    ELSE cleanMerchantName(description)

\* C12: in every transaction a parser emits, merchant_name is what the
\* merchant cleaner makes of name, the raw description (never the other way
\* round).
MerchantNameIsCleanedName ==
    pc = "parsed"
        => \A k \in 1..Len(transactions) :
              transactions[k].merchant_name = CleanerResult(transactions[k].name)

\* what the strategy named by kind makes of a statement
StrategyOn(ls) ==
    IF kind = "table" THEN parseChimeStatementTable(ls)
    ELSE IF kind = "nearby" THEN parseChimeFormat(ls)
    ELSE parseGenericPDFFormat(ls)

\* the amount token the strategy named by kind matches in a line
AmountToken(line) ==
    IF kind = "generic" THEN LastGenericAmount(line, 1, "") ELSE findFirstAmount(line)

HasZeroAmount(txns) == \E j \in 1..Len(txns) : txns[j].amount.cents = 0

\* C13: a strategy emits a transaction of amount 0 for a line only if the
\* amount token of the line is exactly "0.00", and it does emit one for a
\* date-anchored line whose token is exactly "0.00".
ZeroOnlyFromLiteralZero ==
    (pc = "parsed" /\ kind \in PdfStrategies)
        => \A k \in 1..Len(lines) :
              /\ HasZeroAmount(StrategyOn(<<lines[k]>>)) => AmountToken(lines[k]) = "0.00"
              /\ (LeadingDate(lines[k]) # "" /\ AmountToken(lines[k]) = "0.00")
                    => HasZeroAmount(StrategyOn(<<lines[k]>>))

\* the header cells of the file, trimmed and lower-cased
HeaderNames == {toLowerCase(trim(csvInput.header[k])) : k \in 1..Len(csvInput.header)}

\* the kinds of column the header of the file has none of
MissingColumnKinds ==
    (IF HeaderNames \cap DateColumns = {} THEN {"date"} ELSE {})
    \cup (IF HeaderNames \cap DescColumns = {} THEN {"description"} ELSE {})
    \cup (IF HeaderNames \cap (AmountColumns \cup DebitColumns \cup CreditColumns) = {}
          THEN {"amount"} ELSE {})

\* C18: given a generic file whose header lacks a date column, a description
\* column, or every amount/debit/credit column, parseGenericCSV returns no
\* transaction and, after the errors of Papa.parse and without a warning about
\* any row, one error that names a missing kind of column.
MissingColumnIsReported ==
    (pc = "parsed" /\ kind = "delimited" /\ MissingColumnKinds # {})
        => /\ transactions = <<>>
           /\ Len(errors) = Len(PapaErrors(csvInput.header, csvInput.rows, 1)) + 1
           /\ \E missing \in MissingColumnKinds :
                 errors[Len(errors)] = "Could not find " \o missing \o " column"

\* the number an amount cell denotes, in hundredths: its magnitude, positive
\* under a CR marker, else negative when it is written with a leading '-', in
\* parentheses or with a trailing '-'
SignedValue(cell) ==
    IF HasCreditMarker(trim(cell)) THEN Num(MagnitudeCents(cell))
    ELSE IF startsWith(trim(cell), "-") \/ IsWrittenNegative(trim(cell))
         THEN Num(-MagnitudeCents(cell))
    ELSE Num(MagnitudeCents(cell))

\* the value of the cell of a debit or credit column, 0 when there is no such
\* column or the cell is empty
ValueOrZero(row, col) ==
    IF col = "" \/ Cell(ParsedKeys, row, col) = "" THEN Num(0)
    ELSE SignedValue(Cell(ParsedKeys, row, col))

\* the amount of a row of a generic file: the signed value of its amount
\* cell, credit - debit when that cell is missing or empty
SignedRowAmount(row) ==
    IF SelectedColumn(AmountColumns) # ""
       /\ Cell(ParsedKeys, row, SelectedColumn(AmountColumns)) # ""
    THEN SignedValue(Cell(ParsedKeys, row, SelectedColumn(AmountColumns)))
    ELSE Minus(ValueOrZero(row, SelectedColumn(CreditColumns)),
               ValueOrZero(row, SelectedColumn(DebitColumns)))

RECURSIVE SignedRowAmounts(_, _)
\* the amounts of the candidate rows from k on whose date and amount parse
SignedRowAmounts(rows, k) ==
    IF k > Len(rows) THEN <<>>
    ELSE (IF k \in CandidateRows \ UnparseableRows THEN <<SignedRowAmount(rows[k])>>
          ELSE <<>>)
         \o SignedRowAmounts(rows, k + 1)

\* C19: the amounts parseGenericCSV returns are, row by row, the signed value
\* of the amount cell when the row has one, and otherwise credit - debit with
\* a missing or empty cell counted as 0.
GenericAmountIsCellOrCreditMinusDebit ==
    (pc = "parsed" /\ kind = "delimited")
        => AmountsOf(transactions) = SignedRowAmounts(csvInput.rows, 1)

(***************************************************************************)
(* Properties of the classifiers (under ClassifierSpec).                   *)
(***************************************************************************)
CategoryLabels ==
    { "Income", "Transfer", "Food & Drink", "Shopping", "Transportation", "Entertainment",
      "Bills & Utilities", "Health", "Travel", "Other" }

\* the priority order of the categories of an amount that is not positive
CategoryOrder ==
    << "Food & Drink", "Shopping", "Transportation", "Entertainment", "Bills & Utilities",
       "Health", "Travel", "Transfer" >>

\* whether some keyword table of the category has a keyword in the text
CategoryMatches(label, text) ==
    \E k \in 1..Len(CategoryTables) :
        CategoryTables[k].label = label /\ AnyKeywordIn(text, CategoryTables[k].keywords)

\* the first category of the priority order that matches the text, 'Other'
\* when none does
FirstInOrder(text) ==
    LET matching == {k \in 1..Len(CategoryOrder) : CategoryMatches(CategoryOrder[k], text)}
    IN  IF matching = {} THEN "Other" ELSE CategoryOrder[Least(matching)]

\* the label of a positive amount
IncomeOrTransfer(text) ==
    IF AnyKeywordIn(text, IncomeKeywords) THEN "Income"
    ELSE IF AnyKeywordIn(text, PeerTransferKeywords) THEN "Transfer"
    ELSE "Income"

\* C14: the category auto-tagger returns one label of the closed set: for an
\* amount > 0 Income on a payroll keyword, else Transfer on a peer-transfer
\* keyword, else Income; for an amount <= 0 the first category of the fixed
\* order whose keywords match the lower-cased merchant text, Other when none.
TaggerFollowsPriorityOrder ==
    (pc = "classified" /\ kind = "categorize")
        => /\ normalized \in CategoryLabels
           /\ normalized = IF raw.amount.cents > 0
                           THEN IncomeOrTransfer(toLowerCase(raw.merchant_name))
                           ELSE FirstInOrder(toLowerCase(raw.merchant_name))

\* an expense whose merchant matches two categories was given the first one
EarlierCategoryWon ==
    /\ pc = "classified"
    /\ kind = "categorize"
    /\ raw.amount.cents <= 0
    /\ CategoryMatches("Food & Drink", toLowerCase(raw.merchant_name))
    /\ CategoryMatches("Transportation", toLowerCase(raw.merchant_name))
    /\ normalized = "Food & Drink"

\* whether the merchant name or the name of the transaction holds one of the words
Mentions(transaction, words) ==
    \E w \in words :
        \/ includes(toLowerCase(transaction.merchant_name), w)
        \/ includes(toLowerCase(transaction.name), w)

EssentialOverrides == {"landlord", "property management"}

FlexOverrides == {"spotify", "netflix", "hulu"}

\* C15: classifyTransaction looks at the sign first, then at the manual
\* overrides: an amount >= 0 is flex whatever the merchant text holds; for an
\* amount < 0 landlord or property management gives essential, and otherwise
\* spotify, netflix or hulu gives flex, whatever the scores are.
SignThenOverrideThenScore ==
    (pc = "classified" /\ kind = "classify")
        => /\ raw.amount.cents >= 0 => normalized = "flex"
           /\ (raw.amount.cents < 0 /\ Mentions(raw, EssentialOverrides))
                 => normalized = "essential"
           /\ (raw.amount.cents < 0 /\ ~Mentions(raw, EssentialOverrides)
                 /\ Mentions(raw, FlexOverrides))
                 => normalized = "flex"

\* an expense at a landlord was classified essential although its category and
\* merchant text score for flex only
OverrideBeatScore ==
    /\ pc = "classified"
    /\ kind = "classify"
    /\ raw.amount.cents < 0
    /\ Mentions(raw, EssentialOverrides)
    /\ containsKeyword(toLowerCase(raw.category), FLEX_CATEGORY_KEYWORDS)
    /\ ~containsKeyword(toLowerCase(raw.category), ESSENTIAL_CATEGORY_KEYWORDS)
    /\ normalized = "essential"

\* 1 when the condition holds, 0 otherwise
Indicator(condition) == IF condition THEN 1 ELSE 0

\* the lower-cased merchant text of a transaction: merchant name and name
MerchantText(transaction) ==
    CombinedMerchant(toLowerCase(transaction.merchant_name), toLowerCase(transaction.name))

EssentialScore(transaction) ==
    2 * Indicator(containsKeyword(toLowerCase(transaction.category),
                                  ESSENTIAL_CATEGORY_KEYWORDS))
    + 1 * Indicator(containsKeyword(MerchantText(transaction), ESSENTIAL_CATEGORY_KEYWORDS))
    + 3 * Indicator(containsKeyword(MerchantText(transaction), ESSENTIAL_MERCHANT_KEYWORDS))

FlexScore(transaction) ==
    2 * Indicator(containsKeyword(toLowerCase(transaction.category), FLEX_CATEGORY_KEYWORDS))
    + 2 * Indicator(containsKeyword(MerchantText(transaction), FLEX_CATEGORY_KEYWORDS))

\* the decision rule on the two scores
ScoreDecision(transaction, essential, flex) ==
    IF essential >= 3 /\ essential >= flex THEN "essential"
    ELSE IF flex >= 2 /\ flex > essential THEN "flex"
    ELSE IF containsKeyword(toLowerCase(transaction.category), ESSENTIAL_CATEGORY_KEYWORDS)
         THEN "essential"
    ELSE "flex"

\* C16: for an expense without a manual override, classifyTransaction returns
\* what the decision rule gives on the scores essential = 2*category +
\* 1*merchant text + 3*merchant table and flex = 2*category + 2*merchant text;
\* the result is always essential or flex.
ScoresDecideExpense ==
    (pc = "classified" /\ kind = "classify")
        => /\ normalized \in {"essential", "flex"}
           /\ (raw.amount.cents < 0 /\ ~Mentions(raw, EssentialOverrides \cup FlexOverrides))
                 => normalized = ScoreDecision(raw, EssentialScore(raw), FlexScore(raw))

\* an expense was classified essential by its category alone: neither score
\* reached its threshold with the lead the rule asks for
CategoryAloneDecided ==
    /\ pc = "classified"
    /\ kind = "classify"
    /\ raw.amount.cents < 0
    /\ ~Mentions(raw, EssentialOverrides \cup FlexOverrides)
    /\ EssentialScore(raw) = 2
    /\ FlexScore(raw) = 2
    /\ normalized = "essential"

(***************************************************************************)
(* Properties of the deduplicator (under DeduplicatorSpec).                *)
(***************************************************************************)
\* the entries of a list that no earlier entry shares its key with
FirstOccurrences(txns) ==
    {k \in 1..Len(txns) : \A j \in 1..(k - 1) : ~SameKey(txns[j], txns[k])}

\* the i-th smallest member of a set of indices
NthOf(S, i) == CHOOSE k \in S : Cardinality({j \in S : j <= k}) = i

\* C17: deduplicateTransactions returns, in their order, exactly the entries
\* that are the first of their (date, amount, merchant_name) key, and given
\* its own output it returns that output.
DedupKeepsFirstsAndIsIdempotent ==
    /\ pc \in {"deduplicated", "deduplicated again"}
          => /\ Len(transactions) = Cardinality(FirstOccurrences(raw))
             /\ \A i \in 1..Len(transactions) :
                   transactions[i] = raw[NthOf(FirstOccurrences(raw), i)]
    /\ pc = "deduplicated again" => normalized = transactions

\* a list with a repeated key went through twice: the repetition is gone, at
\* least two transactions survive
DuplicateWasDropped ==
    /\ pc = "deduplicated again"
    /\ Len(transactions) < Len(raw)
    /\ Len(transactions) >= 2
    /\ normalized = transactions

(***************************************************************************)
(* Properties of the merchant cleaners (under CleanerSpec).                *)
(***************************************************************************)
\* the text before the first run of two or more spaces, '#', '*' or APPLE PAY
\* ENDING; the whole text when it holds none of them
TextBeforeSeparator(text) == Upto(text, FirstSeparator(text) - 1)

\* C20: what the merchant cleaners make of a raw description is what they
\* make of the text before its first separator alone, also when the
\* description begins with a separator.
CleanerTruncatesAtFirstSeparator ==
    pc = "cleaned"
        => /\ normalized.csv = extractMerchantName(TextBeforeSeparator(raw))
           /\ normalized.pdf = cleanMerchantName(TextBeforeSeparator(raw))

\* the description after separator truncation, network-prefix stripping and
\* whitespace collapsing
KeptText(text) ==
    collapseWhitespace(
        StripLeadingPunctuation(StripNetworkPrefix(trim(TextBeforeSeparator(text)))))

\* a word of a uniformly cased description: an alphanumeric token of at most
\* three characters verbatim, any other word title-cased
ExpectedWord(word) ==
    IF word = "" \/ (IsAlnumWord(word) /\ Len(word) <= 3) THEN word
    ELSE toUpperCase(SubSeq(word, 1, 1)) \o toLowerCase(From(word, 2))

ExpectedWords(words) ==
    JoinWith([k \in 1..Len(words) |-> ExpectedWord(words[k])], " ")

\* C21: a description with both an upper-case and a lower-case letter comes
\* out of cleanMerchantName as its truncated, prefix-stripped,
\* whitespace-collapsed text with no letter joined, re-cased or removed; a
\* uniformly cased one comes out title-cased word by word, its alphanumeric
\* tokens of at most three characters verbatim.
MixedCaseKeptUniformTitleCased ==
    (pc = "cleaned" /\ KeptText(raw) # "")
        => normalized.pdf =
               IF HasLower(KeptText(raw)) /\ HasUpper(KeptText(raw)) THEN KeptText(raw)
               ELSE ExpectedWords(SplitOnSpace(KeptText(raw), 1))

(***************************************************************************)
(* Properties of the table strategy's type keyword (under ParserSpec).     *)
(***************************************************************************)
\* the lines that make a row of their own: they start with a date that
\* parses and the next line, if any, starts with a date too
OneLineRows ==
    {k \in 1..Len(lines) :
        /\ pdf_parseUSDate(LeadingDate(trim(lines[k]))) # ""
        /\ k < Len(lines) => LeadingDate(trim(lines[k + 1])) # ""}

\* the text of a one-line row behind its date
RowRemainder(line) ==
    collapseWhitespace(RemoveFirst(collapseWhitespace(trim(line)), LeadingDate(trim(line))))

\* the type keywords that occur in the text
KeywordsIn(text) ==
    {p \in {CHIME_TYPE_PATTERNS[k] : k \in 1..Len(CHIME_TYPE_PATTERNS)} :
        includes(toLowerCase(text), p)}

\* the keywords in the text that are part of no longer keyword in the text
LongerKeywordsIn(text) ==
    {p \in KeywordsIn(text) : \A q \in KeywordsIn(text) : q = p \/ ~includes(q, p)}

\* the text before and after the first occurrence of the keyword
TextBefore(text, keyword) ==
    collapseWhitespace(Upto(text, indexOf(toLowerCase(text), keyword) - 1))

TextAfter(text, keyword) ==
    trim(From(text, indexOf(toLowerCase(text), keyword) + Len(keyword)))

\* the description of a row anchored at the keyword: the text before it,
\* less amounts and dates
AnchoredName(text, keyword) ==
    collapseWhitespace(removeDates(collapseWhitespace(removeAmounts(TextBefore(text, keyword)))))

\* the transaction of a one-line row anchored at the keyword
AnchoredAt(line, keyword) ==
    Txn(pdf_parseUSDate(LeadingDate(trim(line))),
        AnchoredName(RowRemainder(line), keyword),
        cleanMerchantName(AnchoredName(RowRemainder(line), keyword)),
        parseChimeAmount(findFirstAmount(TextAfter(RowRemainder(line), keyword))))

\* the row has a description before the keyword and an amount after it
CanAnchorAt(line, keyword) ==
    /\ AnchoredName(RowRemainder(line), keyword) # ""
    /\ findFirstAmount(TextAfter(RowRemainder(line), keyword)) # ""
    /\ ~IsBogusZero(parseChimeAmount(findFirstAmount(TextAfter(RowRemainder(line), keyword))),
                    findFirstAmount(TextAfter(RowRemainder(line), keyword)))

\* C22: the table strategy anchors a row at a keyword of its text that is
\* part of no longer keyword of the text: the description is the text before
\* that keyword and the amount is the first one after it.
LongestKeywordIsAnchor ==
    (pc = "parsed" /\ kind = "table")
        => \A k \in OneLineRows :
              (/\ KeywordsIn(RowRemainder(lines[k])) # {}
               /\ \A p \in KeywordsIn(RowRemainder(lines[k])) : CanAnchorAt(lines[k], p))
                  => \E p \in LongerKeywordsIn(RowRemainder(lines[k])) :
                        \E j \in 1..Len(transactions) :
                           transactions[j] = AnchoredAt(lines[k], p)

\* a row with a keyword inside a longer keyword was anchored at the longer one
LongerKeywordWasAnchor ==
    /\ pc = "parsed"
    /\ kind = "table"
    /\ \E k \in OneLineRows :
          \E p, q \in KeywordsIn(RowRemainder(lines[k])) :
             /\ p # q
             /\ includes(p, q)
             /\ CanAnchorAt(lines[k], p)
             /\ CanAnchorAt(lines[k], q)
             /\ AnchoredAt(lines[k], p) # AnchoredAt(lines[k], q)
             /\ \E j \in 1..Len(transactions) : transactions[j] = AnchoredAt(lines[k], p)

(***************************************************************************)
(* Properties of the strategies step by step (under SegmenterSpec).        *)
(***************************************************************************)
\* C23: when the nearby-window strategy emits a transaction for date line i
\* and type line t (t = i without a keyword) the cursor goes to max(i, t) + 1,
\* and every later transaction has its date line and its type line behind
\* max(i, t).
NearbyNeverReusesAnchors ==
    kind = "nearby"
        => \A a \in 1..Len(anchors) :
              /\ anchors[a].next = Max(anchors[a].date, anchors[a].type) + 1
              /\ cursor >= anchors[a].next
              /\ \A b \in (a + 1)..Len(anchors) :
                    /\ anchors[b].date >= anchors[a].next
                    /\ anchors[b].type # 0 => anchors[b].type >= anchors[a].next

\* a transaction whose type keyword stood on a later line than its date was
\* followed by another transaction
LaterTypeLineThenNextAnchor ==
    /\ kind = "nearby"
    /\ \E a \in 1..Len(anchors) :
          /\ anchors[a].type > anchors[a].date
          /\ a < Len(anchors)

\* a step of a loop that does not leave it
IsLoopIteration ==
    /\ pc \in {"loop", "fold"}
    /\ pc' # "returned"
    /\ ~(pc = "fold" /\ pc' = "loop")

\* C26: each iteration of the loops of the three strategies moves the line
\* cursor forward, and every call of a strategy returns.
CursorAdvancesAndStrategyReturns ==
    /\ [][IsLoopIteration => cursor' > cursor]_vars
    /\ <>(pc = "returned")

\* a strategy returned after it skipped a line without emitting
ReturnedAfterSkips ==
    /\ pc = "returned"
    /\ Len(lines) = MaxStatementLines
    /\ Len(transactions) < Len(lines)
    /\ Len(transactions) > 0

\* C27: in the nearby-window strategy no line supplies the amount of two
\* emitted transactions.
AmountLineUsedOnce ==
    kind = "nearby"
        => \A a, b \in 1..Len(anchors) :
              a # b => anchors[a].amount # anchors[b].amount

\* what the strategy taken step by step returns is what the strategy returns,
\* and the rows it folds are the rows of the strategy
StepsGiveTheStrategy ==
    /\ pc = "returned" => transactions = StrategyOn(lines)
    /\ (pc = "fold" /\ (cursor > Len(lines) \/ LeadingDate(trim(lines[cursor])) # ""))
          => folding.rowLines
                = FoldRow(lines, folding.start + 1, <<trim(lines[folding.start])>>).rowLines

(***************************************************************************)
(* Properties of the layout reconstructor (under LayoutSpec).              *)
(***************************************************************************)
\* the line group that holds the k-th text element of the page
GroupOf(k) ==
    CHOOSE g \in 1..Len(lineGroups) :
        \E m \in 1..Len(lineGroups[g].elems) : lineGroups[g].elems[m] = k

\* the two text elements are less than the tolerance apart
AreClose(a, b) == AbsInt(textElements[a].y - textElements[b].y) < yTolerance

\* C24: two text elements of a page less than the tolerance apart are in the
\* same line, and an element that is the tolerance or more apart from every
\* other element of a line is not in that line.
CloseFragmentsShareLine ==
    \A a, b \in 1..Len(textElements) :
        /\ AreClose(a, b) => GroupOf(a) = GroupOf(b)
        /\ (a # b /\ GroupOf(a) = GroupOf(b))
              => \E c \in 1..Len(textElements) :
                    c # a /\ GroupOf(c) = GroupOf(a) /\ AreClose(a, c)

(***************************************************************************)
(* Properties of the API routes (under ServerSpec).                        *)
(***************************************************************************)
\* C25: in every state there is at most one import record for a file hash,
\* also when the lookups and the inserts of two POSTs of one file interleave.
OneImportPerFileHash ==
    \A m, n \in imports : m.file_hash = n.file_hash => m.id = n.id

\* C28: after the import handler has answered 500, neither the import record
\* of the upload nor any transaction of the upload is stored.
FailedImportLeavesNoTrace ==
    \A r \in DOMAIN requests :
        (requests[r].op = "POST" /\ requests[r].pc = "done" /\ requests[r].status = 500)
            => /\ \A m \in imports : m.id # requests[r].importRecord
               /\ \A t \in storedRows : t.by # r

\* no handler is between two of its steps
Quiescent == \A r \in DOMAIN requests : requests[r].pc \in {"idle", "done"}

\* C29: when no request is in progress, the transaction_count of every import
\* is the number of stored transactions of that import.
CountIsNumberOfRows ==
    Quiescent
        => \A m \in imports :
              m.transaction_count = Cardinality({t \in storedRows : t.import_id = m.id})

(***************************************************************************)
(* Properties of the data hooks (under HookSpec).                          *)
(***************************************************************************)
\* the most recently started request has neither settled nor been aborted
NewestInFlight ==
    /\ fetches # <<>>
    /\ ~fetches[Len(fetches)].settled
    /\ ~fetches[Len(fetches)].aborted

\* C30: whenever the most recently started request has neither settled nor
\* been aborted, loading is true, and the data and the error of the hook
\* never come from a request that was aborted.
LoadingWhileNewestInFlight ==
    /\ NewestInFlight => hook.loading
    /\ \A k \in DOMAIN fetches :
          fetches[k].aborted
              => /\ hook.data.of # k
                 /\ NewestInFlight => hook.error = ""

====
